---- MODULE Spec2Model ----
(***************************************************************************)
(* djLint formatter core: the inline-style extractor (formatter/cssstyle), *)
(* the attribute reflower (formatter/attributes), the indentation pass     *)
(* (formatter/indent.process_indentation) and the formatter entry point    *)
(* (reformat.formatter).                                                   *)
(*                                                                         *)
(* Text is modelled as sequences of tokens.  A style value is a sequence   *)
(* of characters, so that quote stripping is computed, not assumed.  A     *)
(* class name is a record [rnd, n]: a minted name "class-{rnd}-{n}" has    *)
(* n >= 0, a class written by the author has n = -1.                       *)
(***************************************************************************)
EXTENDS Integers, Sequences, FiniteSets, TLC

VARIABLES
    \* the style session carried by config
    css_rules,   \* config.css_rules: insertion-ordered dict, a sequence of <<name, style>>
    counter,     \* config.counter
    css_file,    \* content of config.css_file_path: a sequence of [sel, body] blocks
    calls,       \* number of API calls made so far in this session
    last,        \* the last call: its name, arguments and result
    assigned,    \* every (style text given, style text stored, class returned) of
                 \* add_css_classes; occ marks a style="..." occurrence of a line
    \* one call of format_attributes
    fa_cfg,      \* config: max_attribute_length, format_attribute_template_tags
    fa_match,    \* the tag match: leading space, attribute string, closing bracket
    fa_ignored,  \* child_of_ignored_block(config, html, match)
    fa_pc,       \* "call", "returned" or "raised"
    fa_out,      \* the returned text
    \* one call of process_indentation
    config,               \* the options the loop reads
    extractor,            \* the clean_inline_style_to_css_class the import resolves to
    pc,                   \* "idle", "loop" or "raised"
    error,                \* the exception raised, "" if none
    emitted,              \* number of lines appended to beautified_code
    item,                 \* the line of the last iteration
    tmp,                  \* the text the last iteration computed for it
    branch,               \* the branch of the cascade that classified it
    prev,                 \* indent_level, ignored_level, is_block_raw before that line
    indent_level,
    in_set_tag,
    is_raw_first_line,
    in_script_style_tag,
    is_block_raw,
    ignored_level,
    raw_trace,            \* how far a script/style block with a nested ignored block
                          \* has been read
    set_scope,            \* the set assignment being read: the level before its first
                          \* line, its open brackets, whether only bracket lines followed
    \* calls of formatter
    f_config,    \* config
    f_rawcode,   \* the document given to the first pass
    f_file,      \* this_file
    f_pc,        \* "call", "returned" or "raised"
    f_pass,      \* number of passes made
    f_first,     \* what the first pass returned
    f_out,       \* what the last pass returned
    f_eol,       \* the line break rawcode uses: "" (none), "\n" or "\r\n"
    \* two workers that run clean_inline_style_to_css_class on one css_file_path
    w_file,      \* content of the shared file
    w_rules,     \* each worker's config.css_rules
    w_pc,        \* each worker's place: "append", "read", "write" or "done"
    w_read,      \* what each worker's remove_duplicate_classes has read
    \* the rule module H025
    h_html,      \* the document, as its sequence of tags
    h_ignored,   \* the places of the tags that lie in a raw block or an ignore region
    h_pc,        \* "load", "raised" or "returned"
    h_errors,    \* the findings returned
    \* one call of add_indentation (attributes.py)
    ai_config,     \* config: indent
    ai_attributes, \* the attribute value, as its sequence of lines
    ai_spacing,    \* spacing
    ai_pc,         \* "call" or "returned"
    ai_indented,   \* the returned text
    \* one call of format_data (indent.py)
    fd_config,        \* config: max_line_length, indent_size
    fd_contents,      \* the value of the set or function tag
    fd_tag_size,      \* tag_size
    fd_leading_space, \* leading_space
    fd_pc,            \* "call", "returned" or "raised"
    fd_out            \* the returned text

css_vars == <<css_rules, counter, css_file, calls, last, assigned>>
fa_vars == <<fa_cfg, fa_match, fa_ignored, fa_pc, fa_out>>
loop_vars == <<config, extractor, pc, error, emitted, item, tmp, branch, prev, indent_level,
               in_set_tag, is_raw_first_line, in_script_style_tag, is_block_raw,
               ignored_level, set_scope, raw_trace>>
f_vars == <<f_config, f_rawcode, f_file, f_pc, f_pass, f_first, f_out, f_eol>>
w_vars == <<w_file, w_rules, w_pc, w_read>>
h_vars == <<h_html, h_ignored, h_pc, h_errors>>
ai_vars == <<ai_config, ai_attributes, ai_spacing, ai_pc, ai_indented>>
fd_vars == <<fd_config, fd_contents, fd_tag_size, fd_leading_space, fd_pc, fd_out>>
vars == <<css_vars, fa_vars, loop_vars, f_vars, w_vars, h_vars, ai_vars, fd_vars>>

\* what the actions of one part leave alone
beside_css == <<fa_vars, loop_vars, f_vars, w_vars, h_vars, ai_vars, fd_vars>>
beside_attr == <<css_vars, loop_vars, f_vars, w_vars, h_vars, ai_vars, fd_vars>>
beside_loop == <<calls, last, assigned, fa_vars, f_vars, w_vars, h_vars, ai_vars, fd_vars>>
beside_formatter == <<css_vars, fa_vars, loop_vars, w_vars, h_vars, ai_vars, fd_vars>>
beside_workers == <<css_vars, fa_vars, loop_vars, f_vars, h_vars, ai_vars, fd_vars>>
beside_rule == <<css_vars, fa_vars, loop_vars, f_vars, w_vars, ai_vars, fd_vars>>
beside_indentation == <<css_vars, fa_vars, loop_vars, f_vars, w_vars, h_vars, fd_vars>>
beside_data == <<css_vars, fa_vars, loop_vars, f_vars, w_vars, h_vars, ai_vars>>

----------------------------------------------------------------------------
(* Bounds *)

MaxCalls == 2

----------------------------------------------------------------------------
(* Sequence helpers *)

RECURSIVE Concat(_)
Concat(ss) == IF ss = <<>> THEN <<>> ELSE Head(ss) \o Concat(Tail(ss))

Range(s) == {s[i] : i \in DOMAIN s}

\* all orderings of a finite set, as sequences without repetition
Orderings(S) ==
    {f \in [1..Cardinality(S) -> S] : \A i, j \in 1..Cardinality(S) : f[i] = f[j] => i = j}

----------------------------------------------------------------------------
(* Characters and style text *)

Quote == "'"

\* str.strip(ch): drop every leading and every trailing ch
RECURSIVE LStrip(_, _)
LStrip(s, ch) == IF s # <<>> /\ Head(s) = ch THEN LStrip(Tail(s), ch) ELSE s

RECURSIVE RStrip(_, _)
RStrip(s, ch) ==
    IF s # <<>> /\ s[Len(s)] = ch THEN RStrip(SubSeq(s, 1, Len(s) - 1), ch) ELSE s

StripChar(s, ch) == RStrip(LStrip(s, ch), ch)

Contains(s, ch) == \E i \in DOMAIN s : s[i] = ch

DQuote == "\""

----------------------------------------------------------------------------
(* HTML text as tokens: `<name`, a run of n spaces, a run of n indent units, *)
(* a line break, an attribute, `>`, other text.  An attribute has a name, a  *)
(* quote character ("" when bare or without value) and a value: a sequence   *)
(* of class names for class, a sequence of characters otherwise.            *)

Tok(t, name, q, cls, val, n) ==
    [t |-> t, name |-> name, q |-> q, cls |-> cls, val |-> val, n |-> n]
TagTok == Tok("tag", "", "", <<>>, <<>>, 0)
Spaces(n) == Tok("sp", "", "", <<>>, <<>>, n)
SpTok == Spaces(1)
NlTok == Tok("nl", "", "", <<>>, <<>>, 0)
GtTok == Tok("gt", "", "", <<>>, <<>>, 0)
Txt(text) == Tok("text", text, "", <<>>, <<>>, 0)
TextTok == Txt("text")
Attr(name, q, val) == Tok("attr", name, q, <<>>, val, 0)
ClassTok(names) == Tok("attr", "class", DQuote, names, <<>>, 0)
StyleTok(text) == Attr("style", DQuote, text)

\* class="..." and style="...", as class_pattern and style_pattern match them
IsClassAttr(tok) == tok.t = "attr" /\ tok.name = "class" /\ tok.q = DQuote
IsStyleAttr(tok) == tok.t = "attr" /\ tok.name = "style" /\ tok.q = DQuote

UserClass(name) == [rnd |-> name, n |-> -1]
NoClass == [rnd |-> "", n |-> -1]

\* style_pattern.findall(html): the text between the double quotes of every style="..."
RECURSIVE StyleMatches(_)
StyleMatches(html) ==
    IF html = <<>> THEN <<>>
    ELSE (IF IsStyleAttr(Head(html)) THEN <<Head(html).val>> ELSE <<>>)
         \o StyleMatches(Tail(html))

\* class_pattern.findall(html), each value split on whitespace, then flattened
RECURSIVE ClassMatches(_)
ClassMatches(html) ==
    IF html = <<>> THEN <<>>
    ELSE (IF IsClassAttr(Head(html)) THEN Head(html).cls ELSE <<>>)
         \o ClassMatches(Tail(html))

\* re.sub(r'style="[^"]*"', '', html)
RECURSIVE RemoveStyles(_)
RemoveStyles(html) ==
    IF html = <<>> THEN <<>>
    ELSE (IF IsStyleAttr(Head(html)) THEN <<>> ELSE <<Head(html)>>)
         \o RemoveStyles(Tail(html))

----------------------------------------------------------------------------
(* formatter/cssstyle.py *)

Files == {"f1", "f2"}

\* hashlib.shake_256(str(this_file).encode()).hexdigest(5)
Hash(this_file) == IF this_file = "f1" THEN "d1" ELSE "d2"

\* the caller that passes no this_file (indent.py:720) is written against
\* the extractor that fingerprints the style text itself
StyleText == "style-text"

HashStyle(inline_styles) ==
    IF inline_styles = <<"a">> THEN "da"
    ELSE IF inline_styles = <<"b">> THEN "db" ELSE "dz"

Fingerprint(this_file, inline_styles) ==
    IF this_file = StyleText THEN HashStyle(inline_styles) ELSE Hash(this_file)

\* f"class-{rnd}-{config.counter}"
MintName(this_file, inline_styles, cnt) ==
    [rnd |-> Fingerprint(this_file, inline_styles), n |-> cnt]

\* mutant: `styles is inline_styles` (identity, not equality): a style text
\* read from another line is never the stored object, so nothing is found
LookupClassIdentity(rules, inline_styles) == NoClass

\* next((cls for cls, styles in css_rules.items() if styles == inline_styles), None)
LookupClass(rules, inline_styles) ==
    LET hits == {i \in DOMAIN rules : rules[i][2] = inline_styles}
    IN  IF hits = {} THEN NoClass
        ELSE rules[CHOOSE i \in hits : \A j \in hits : i <= j][1]

\* css_rules[key] = value on an insertion-ordered dict
DictSet(rules, key, value) ==
    IF \E i \in DOMAIN rules : rules[i][1] = key
    THEN [i \in DOMAIN rules |-> IF rules[i][1] = key THEN <<key, value>> ELSE rules[i]]
    ELSE Append(rules, <<key, value>>)

\* the counter after one add_css_classes call
NextCounter(cnt) == cnt + 1

add_css_classes(rules, cnt, css_classes, inline_styles, this_file) ==
    LET found == LookupClass(rules, inline_styles)
        minted == found = NoClass
        class_name == IF minted THEN MintName(this_file, inline_styles, cnt) ELSE found
    IN  [rules |-> IF minted THEN DictSet(rules, class_name, inline_styles) ELSE rules,
         counter |-> NextCounter(cnt),
         css_classes |-> Append(css_classes, class_name),
         class_name |-> class_name,
         minted |-> minted,
         fresh |-> ~(\E i \in DOMAIN rules : rules[i][1] = class_name)]

\* the quote handling of one style match (cssstyle.py:60-65)
Unquote(match) ==
    IF Contains(match, Quote) THEN StripChar(match, Quote)
    ELSE IF Contains(match, DQuote) THEN StripChar(match, DQuote)
    ELSE match

\* the loop over the style matches (cssstyle.py:58-72).  st.flat is
\* flattened_class_list, which add_css_classes appends to in place when it is
\* the list that was passed; st.css_classes is the value last returned.
RECURSIVE StyleLoop(_, _, _)
StyleLoop(matches, this_file, st) ==
    IF matches = <<>> THEN st
    ELSE LET match == Head(matches)
             attrib_value == Unquote(match)
             \* `flattened_class_list or []`: the list itself when it is non-empty
             \* (add_css_classes then appends to it in place), a new [] otherwise
             aliased == st.flat # <<>>
             r == add_css_classes(st.rules, st.counter,
                                  IF aliased THEN st.flat ELSE <<>>,
                                  attrib_value, this_file)
         IN  StyleLoop(Tail(matches), this_file,
                 [rules |-> r.rules,
                  counter |-> r.counter + 1,
                  flat |-> IF aliased THEN r.css_classes ELSE st.flat,
                  css_classes |-> r.css_classes,
                  log |-> st.log \cup {[occ |-> TRUE, text |-> match,
                                        stored |-> attrib_value, cls |-> r.class_name]},
                  minted |-> st.minted \o (IF r.minted
                                THEN <<[cls |-> r.class_name, fresh |-> r.fresh]>>
                                ELSE <<>>)])

\* re.sub(class_pattern, new_class_str, html)
RECURSIVE ReplaceClasses(_, _)
ReplaceClasses(html, new_class) ==
    IF html = <<>> THEN <<>>
    ELSE <<IF IsClassAttr(Head(html)) THEN new_class ELSE Head(html)>>
         \o ReplaceClasses(Tail(html), new_class)

\* re.sub(r"(<\w+)", r"\1 " + new_class_str, html, 1)
RECURSIVE InsertAfterFirstTag(_, _)
InsertAfterFirstTag(html, new_class) ==
    IF html = <<>> THEN <<>>
    ELSE IF Head(html).t = "tag" THEN <<Head(html), SpTok, new_class>> \o Tail(html)
    ELSE <<Head(html)>> \o InsertAfterFirstTag(Tail(html), new_class)

add_or_update_class(html, new_class) ==
    IF \E i \in DOMAIN html : IsClassAttr(html[i])
    THEN ReplaceClasses(html, new_class)
    ELSE InsertAfterFirstTag(html, new_class)

\* mutant: the file is opened with "w", which truncates it
create_css_file_truncating(file, rules) ==
    [i \in DOMAIN rules |-> [sel |-> rules[i][1], body |-> rules[i][2]]]

\* create_css_file: open(path, "a+") and one line per css_rules entry
create_css_file(file, rules) ==
    file \o [i \in DOMAIN rules |-> [sel |-> rules[i][1], body |-> rules[i][2]]]

\* mutant: unique_classes[class_name] = class_def without the `not in` test:
\* the last block of every selector, at the place of the first
remove_duplicate_classes_last(file) ==
    LET keep == {i \in DOMAIN file : \A j \in 1..(i - 1) : file[j].sel # file[i].sel}
        final(i) == CHOOSE j \in DOMAIN file :
                        /\ file[j].sel = file[i].sel
                        /\ \A k \in DOMAIN file : file[k].sel = file[i].sel => k <= j
        RECURSIVE Pick(_)
        Pick(i) == IF i > Len(file) THEN <<>>
                   ELSE (IF i \in keep THEN <<file[final(i)]>> ELSE <<>>) \o Pick(i + 1)
    IN  Pick(1)

\* remove_duplicate_classes: the first block of every selector, in file order
remove_duplicate_classes(file) ==
    LET keep == {i \in DOMAIN file : \A j \in 1..(i - 1) : file[j].sel # file[i].sel}
        RECURSIVE Pick(_)
        Pick(i) == IF i > Len(file) THEN <<>>
                   ELSE (IF i \in keep THEN <<file[i]>> ELSE <<>>) \o Pick(i + 1)
    IN  Pick(1)

\* what the style loop of clean_inline_style_to_css_class leaves (before the
\* class list is turned into a set and joined)
CleanLoop(rules, cnt, html, this_file) ==
    StyleLoop(StyleMatches(html), this_file,
              [rules |-> rules, counter |-> cnt, flat |-> ClassMatches(html),
               css_classes |-> <<>>, log |-> {}, minted |-> <<>>])

\* clean_inline_style_to_css_class; `order` is the iteration order of
\* set(css_classes), which Python does not fix
clean_inline_style_to_css_class(rules, cnt, file, html, this_file, order) ==
    LET st == CleanLoop(rules, cnt, html, this_file)
        stripped == RemoveStyles(html)
        out == IF st.css_classes # <<>>
               THEN add_or_update_class(stripped, ClassTok(order))
               ELSE stripped
    IN  [rules |-> st.rules,
         counter |-> st.counter,
         file |-> remove_duplicate_classes(create_css_file(file, st.rules)),
         html |-> out,
         log |-> st.log,
         minted |-> st.minted]

----------------------------------------------------------------------------
(* A session that calls the style extractor's functions directly, as        *)
(* tests/test_djlint/test_cssstyle.py does: css_rules = {} and counter = 0   *)
(* at the start, one CSS file.                                               *)

SA == <<"a">>
SB == <<"b">>
SQA == <<Quote, "a", Quote>>
SAQ == <<"a", Quote>>
Styles == {SA, SB, SQA, SAQ}

X == UserClass("x")
Y == UserClass("y")

HtmlInputs == {
    <<TagTok, SpTok, StyleTok(SA), GtTok>>,                            \* <div style="a">
    <<TagTok, SpTok, StyleTok(SB), GtTok>>,                            \* <div style="b">
    <<TagTok, SpTok, StyleTok(SQA), GtTok>>,                           \* <div style="'a'">
    <<TagTok, SpTok, StyleTok(SAQ), GtTok>>,                           \* <div style="a'">
    <<TagTok, SpTok, StyleTok(SA), GtTok,
      TagTok, SpTok, StyleTok(SB), GtTok>>,                            \* <div style="a"><p style="b">
    <<TagTok, SpTok, StyleTok(SA), GtTok,
      TagTok, SpTok, StyleTok(SA), GtTok>>,                            \* <div style="a"><p style="a">
    <<TagTok, SpTok, ClassTok(<<X>>), SpTok, StyleTok(SA), GtTok>>,    \* <div class="x" style="a">
    <<TagTok, SpTok, ClassTok(<<X>>), SpTok, StyleTok(SA), GtTok,
      TagTok, SpTok, ClassTok(<<Y>>), SpTok, StyleTok(SB), GtTok>>,    \* .. class="x" style="a" .. class="y" style="b"
    <<TagTok, SpTok, ClassTok(<<X>>), GtTok>>,                         \* <div class="x">
    <<TagTok, GtTok, TagTok, SpTok, StyleTok(SA), GtTok>>,             \* <div><p style="a">
    <<TagTok, SpTok, ClassTok(<<X>>), GtTok,
      TagTok, SpTok, StyleTok(SA), GtTok>>,                            \* <div class="x"><p style="a">
    <<SpTok, StyleTok(SA)>>,                                           \* a continuation line: style="a"
    <<TextTok>>                                                        \* text
}

NoCall == [op |-> "none", input |-> <<>>, output |-> <<>>, ret |-> <<>>,
           log |-> {}, minted |-> <<>>, counter0 |-> 0, rules0 |-> <<>>,
           file0 |-> <<>>]

\* a new Config: no rule, counter 0
InitTables ==
    /\ css_rules = <<>>
    /\ counter = 0
    /\ calls = 0
    /\ last = NoCall
    /\ assigned = {}

InitCss == InitTables /\ css_file = <<>>

Block(sel, body) == [sel |-> sel, body |-> body]

\* what config.css_file_path holds when the session starts: nothing, or the
\* blocks .class1 {color: red;} .class2 {font-size: 12px;} .class1 {color: blue;}
CssFiles == {
    <<>>,
    <<Block(UserClass("class1"), <<"r">>), Block(UserClass("class2"), <<"f">>),
      Block(UserClass("class1"), <<"b">>)>>
}

\* add_css_classes(config, css_classes, inline_styles, this_file) called once
CallAddCssClasses ==
    /\ calls < MaxCalls
    /\ \E style \in Styles, this_file \in Files, css_classes \in {<<>>, <<X>>} :
         LET r == add_css_classes(css_rules, counter, css_classes, style, this_file)
             entry == [occ |-> FALSE, text |-> style, stored |-> style,
                       cls |-> r.class_name]
         IN  /\ css_rules' = r.rules
             /\ counter' = r.counter
             /\ last' = [op |-> "add", input |-> <<>>, output |-> <<>>,
                         ret |-> r.css_classes, log |-> {entry},
                         minted |-> IF r.minted
                                    THEN <<[cls |-> r.class_name, fresh |-> r.fresh]>>
                                    ELSE <<>>,
                         counter0 |-> counter, rules0 |-> css_rules,
                         file0 |-> css_file]
             /\ assigned' = assigned \cup {entry}
    /\ calls' = calls + 1
    /\ UNCHANGED <<css_file, beside_css>>

\* clean_inline_style_to_css_class(config, html, this_file) called once
CallCleanInlineStyle ==
    /\ calls < MaxCalls
    /\ \E html \in HtmlInputs, this_file \in Files :
         \E order \in Orderings(Range(CleanLoop(css_rules, counter, html, this_file).css_classes)) :
           LET r == clean_inline_style_to_css_class(css_rules, counter, css_file,
                                                    html, this_file, order)
           IN  /\ css_rules' = r.rules
               /\ counter' = r.counter
               /\ css_file' = r.file
               /\ last' = [op |-> "clean", input |-> html, output |-> r.html,
                           ret |-> <<>>, log |-> r.log, minted |-> r.minted,
                           counter0 |-> counter, rules0 |-> css_rules,
                         file0 |-> css_file]
               /\ assigned' = assigned \cup r.log
    /\ calls' = calls + 1
    /\ UNCHANGED beside_css

\* create_css_file(config) called once
CallCreateCssFile ==
    /\ calls < MaxCalls
    /\ css_file' = create_css_file(css_file, css_rules)
    /\ last' = [NoCall EXCEPT !.op = "create", !.counter0 = counter,
                              !.rules0 = css_rules, !.file0 = css_file]
    /\ calls' = calls + 1
    /\ UNCHANGED <<css_rules, counter, assigned, beside_css>>

\* remove_duplicate_classes(css_file_path) called once
CallRemoveDuplicateClasses ==
    /\ calls < MaxCalls
    /\ css_file' = remove_duplicate_classes(css_file)
    /\ last' = [NoCall EXCEPT !.op = "dedup", !.counter0 = counter,
                              !.rules0 = css_rules, !.file0 = css_file]
    /\ calls' = calls + 1
    /\ UNCHANGED <<css_rules, counter, assigned, beside_css>>

\* a later run on the same CSS file: a new Config, whose css_rules is empty
\* and whose counter is 0; the file stays as the runs before left it
NewSession ==
    /\ css_rules # <<>>
    /\ css_rules' = <<>>
    /\ counter' = 0
    /\ last' = [NoCall EXCEPT !.op = "session", !.counter0 = counter,
                              !.rules0 = css_rules, !.file0 = css_file]
    /\ UNCHANGED <<css_file, calls, assigned, beside_css>>

NextCss ==
    \/ CallAddCssClasses
    \/ CallCleanInlineStyle
    \/ CallCreateCssFile
    \/ CallRemoveDuplicateClasses


----------------------------------------------------------------------------
(* formatter/attributes.py: format_attributes                                *)

Rep(ch, n) == [i \in 1..n |-> ch]

IsWs(ch) == ch = " " \/ ch = "\n"

\* str.strip() on a sequence of characters
RECURSIVE LStripWs(_)
LStripWs(s) == IF s # <<>> /\ IsWs(Head(s)) THEN LStripWs(Tail(s)) ELSE s

RECURSIVE RStripWs(_)
RStripWs(s) ==
    IF s # <<>> /\ IsWs(s[Len(s)]) THEN RStripWs(SubSeq(s, 1, Len(s) - 1)) ELSE s

StripWs(s) == RStripWs(LStripWs(s))

\* str.split(ch): the pieces between the occurrences of ch
RECURSIVE SplitOn(_, _)
SplitOn(s, ch) ==
    IF \A i \in DOMAIN s : s[i] # ch THEN <<s>>
    ELSE LET k == CHOOSE i \in DOMAIN s : s[i] = ch /\ \A j \in 1..(i - 1) : s[j] # ch
         IN  <<SubSeq(s, 1, k - 1)>> \o SplitOn(SubSeq(s, k + 1, Len(s)), ch)

\* sep.join(parts)
RECURSIVE Join(_, _)
Join(parts, sep) ==
    IF parts = <<>> THEN <<>>
    ELSE IF Len(parts) = 1 THEN parts[1]
    ELSE parts[1] \o sep \o Join(Tail(parts), sep)

\* [value.strip() for value in parts if value.strip()]
RECURSIVE StrippedNonEmpty(_)
StrippedNonEmpty(parts) ==
    IF parts = <<>> THEN <<>>
    ELSE (IF StripWs(Head(parts)) # <<>> THEN <<StripWs(Head(parts))>> ELSE <<>>)
         \o StrippedNonEmpty(Tail(parts))

\* len() of a class name as text
ClassNameLen(c) == IF c.n < 0 THEN Len(c.rnd) ELSE Len("class-") + Len(c.rnd) + 2

RECURSIVE ClassListLen(_)
ClassListLen(names) ==
    IF names = <<>> THEN 0
    ELSE ClassNameLen(Head(names)) + (IF Len(names) > 1 THEN 1 ELSE 0)
         + ClassListLen(Tail(names))

\* len() of a token as text
TokLen(tok) ==
    CASE tok.t = "sp" -> tok.n
      [] tok.t = "nl" -> 1
      [] tok.t = "tag" -> Len("<div")
      [] tok.t = "gt" -> 1
      [] tok.t = "text" -> Len(tok.name)
      [] tok.t = "attr" ->
            Len(tok.name)
            + (IF tok.q # "" THEN 3 + Len(tok.val) + ClassListLen(tok.cls)
               ELSE IF tok.val # <<>> THEN 1 + Len(tok.val) ELSE 0)

RECURSIVE TextLen(_)
TextLen(toks) == IF toks = <<>> THEN 0 ELSE TokLen(Head(toks)) + TextLen(Tail(toks))

IsWsTok(tok) == tok.t = "sp" \/ tok.t = "nl"

\* str.strip() on a sequence of tokens
RECURSIVE LStripToks(_)
LStripToks(s) == IF s # <<>> /\ IsWsTok(Head(s)) THEN LStripToks(Tail(s)) ELSE s

RECURSIVE RStripToks(_)
RStripToks(s) ==
    IF s # <<>> /\ IsWsTok(s[Len(s)]) THEN RStripToks(SubSeq(s, 1, Len(s) - 1)) ELSE s

StripToks(s) == RStripToks(LStripToks(s))

\* the text one tag match covers: match.group()
MatchText(m) ==
    (IF m.lead > 0 THEN <<Spaces(m.lead)>> ELSE <<>>) \o <<TagTok>> \o m.attrs \o m.close

\* the value of an attribute group with its quotes removed (attributes.py:138-150)
AttribValue(tok) ==
    IF tok.q = Quote THEN StripChar(tok.val, Quote)
    ELSE IF tok.q = DQuote THEN StripChar(tok.val, DQuote)
    ELSE tok.val

\* str.splitlines() on a sequence of characters
SplitLines(s) ==
    IF s = <<>> THEN <<>>
    ELSE LET parts == SplitOn(s, "\n")
         IN  IF parts[Len(parts)] = <<>> THEN SubSeq(parts, 1, Len(parts) - 1) ELSE parts

\* a line of an attribute value: its text, and which of the configured
\* patterns (template_unindent, tag_unindent_line, template_indent) its
\* stripped text matches first
ValueLine(kind, text) == [kind |-> kind, text |-> text]

\* (indent * config.indent) + (indent_adder * " ") + line.strip(); a string
\* times a negative number is the empty string
IndentedLine(indent, unit, indent_adder, line) ==
    Rep(" ", (IF indent > 0 THEN indent * unit ELSE 0) + indent_adder) \o StripWs(line.text)

\* the nested indent counter after a line (attributes.py:36-63)
IndentAfter(indent, line) ==
    CASE line.kind = "template_unindent" -> indent - 1
      [] line.kind = "template_indent" -> indent + 1
      [] OTHER -> indent

\* tmp of a line read with the counter at indent (attributes.py:36-63)
TmpOf(indent, unit, indent_adder, line) ==
    CASE line.kind = "template_unindent" ->
            IndentedLine(indent - 1, unit, indent_adder, line)
      [] line.kind = "tag_unindent_line" ->
            IndentedLine(IF indent - 1 > 0 THEN indent - 1 ELSE 0, unit, indent_adder, line)
      [] OTHER -> IndentedLine(indent, unit, indent_adder, line)

\* the loop of add_indentation from line k on (attributes.py:35-69)
RECURSIVE AddIndentationFrom(_, _, _, _, _)
AddIndentationFrom(k, indent, unit, lines, indent_adder) ==
    IF k > Len(lines) THEN <<>>
    ELSE LET line == lines[k]
             tmp_line == TmpOf(indent, unit, indent_adder, line)
         IN  (IF k = 1 THEN StripWs(line.text)
              ELSE IF StripWs(tmp_line) # <<>> THEN <<"\n">> \o tmp_line
              ELSE <<>>)
             \o AddIndentationFrom(k + 1, IndentAfter(indent, line), unit, lines,
                                    indent_adder)

\* add_indentation(config, attributes, spacing) (attributes.py:18-71)
add_indentation(cfg, lines, spacing) ==
    AddIndentationFrom(1, 0, cfg.indent, lines, spacing)

\* format_template_tags on a value without template tags: the add_break
\* substitutions find nothing and add_indentation re-indents the lines
\* (attributes.py:73-110)
format_template_tags(cfg, value, spacing) ==
    LET parts == SplitLines(value)
    IN  add_indentation(cfg, [i \in DOMAIN parts |-> ValueLine("text", parts[i])], spacing)

\* one attribute group, rebuilt (attributes.py:134-203); spacing is the column
\* after the tag name
FormatGroup(cfg, tok, spacing) ==
    LET is_quoted == tok.q \in {Quote, DQuote}
        quote == IF is_quoted THEN tok.q ELSE DQuote
        value0 == AttribValue(tok)
        truthy == value0 # <<>> \/ tok.cls # <<>>
        quote_length == IF tok.name # "" /\ truthy THEN 2 ELSE 1
        join_space == IF cfg.format_attribute_template_tags
                      THEN <<"\n">> \o Rep(" ", spacing)
                      ELSE <<"\n">> \o Rep(" ", spacing + quote_length + Len(tok.name))
        split == IF tok.name = "style"
                 THEN Join(StrippedNonEmpty(SplitOn(value0, ";")), <<";">> \o join_space)
                 ELSE value0
        value == IF /\ cfg.format_attribute_template_tags
                    /\ split # <<>>
                    /\ tok.name \notin cfg.ignored_attributes
                 THEN format_template_tags(cfg, split,
                                           spacing + Len(tok.name) + quote_length)
                 ELSE split
    IN  IF (tok.name # "" /\ (value # <<>> \/ tok.cls # <<>>)) \/ is_quoted
        THEN Tok("attr", tok.name, quote, tok.cls, value, 0)
        ELSE Tok("attr", tok.name, "", tok.cls, value, 0)

\* the rebuilt groups joined by "\n" + spacing (attributes.py:204)
RECURSIVE JoinGroups(_, _, _)
JoinGroups(cfg, toks, spacing) ==
    IF toks = <<>> THEN <<>>
    ELSE IF IsWsTok(Head(toks)) THEN JoinGroups(cfg, Tail(toks), spacing)
    ELSE <<FormatGroup(cfg, Head(toks), spacing)>>
         \o (IF \E i \in DOMAIN Tail(toks) : ~IsWsTok(Tail(toks)[i])
             THEN <<NlTok, Spaces(spacing)>> ELSE <<>>)
         \o JoinGroups(cfg, Tail(toks), spacing)

\* mutant: the threshold is compared with the unstripped attribute string
BelowThresholdUnstripped(cfg, m) == TextLen(m.attrs) < cfg.max_attribute_length

\* len(match.group(3).strip()) < config.max_attribute_length
BelowThreshold(cfg, m) == TextLen(StripToks(m.attrs)) < cfg.max_attribute_length

\* x.rstrip() on every line of the rebuilt tag (attributes.py:211)
RECURSIVE RStripValueLines(_)
RStripValueLines(val) ==
    IF val = <<>> THEN <<>>
    ELSE LET rest == RStripValueLines(Tail(val))
         IN  IF Head(val) = " " /\ rest # <<>> /\ Head(rest) = "\n" THEN rest
             ELSE <<Head(val)>> \o rest

RECURSIVE RStripLines(_)
RStripLines(toks) ==
    IF toks = <<>> THEN <<>>
    ELSE LET rest == RStripLines(Tail(toks))
             h == Head(toks)
         IN  IF h.t = "sp" /\ (rest = <<>> \/ Head(rest).t = "nl") THEN rest
             ELSE IF h.t = "attr" THEN <<[h EXCEPT !.val = RStripValueLines(h.val)]>> \o rest
             ELSE <<h>> \o rest

\* the tag is rewritten (the early return at attributes.py:116-120 is not taken)
Rewrites(cfg, child_of_ignored, m) == ~(child_of_ignored \/ BelowThreshold(cfg, m))

\* attrib_value.split on an attribute that has a name but no value
\* (attributes.py:168-170): None has no split
SplitsNone(cfg, child_of_ignored, m) ==
    /\ Rewrites(cfg, child_of_ignored, m)
    /\ \E i \in DOMAIN m.attrs :
         /\ m.attrs[i].t = "attr"
         /\ m.attrs[i].name = "style"
         /\ m.attrs[i].q = "" /\ m.attrs[i].val = <<>>

\* format_attributes, were spacing to leave out the space after the tag name
format_attributes_unaligned(cfg, child_of_ignored, m) ==
    IF ~Rewrites(cfg, child_of_ignored, m)
    THEN MatchText(m)
    ELSE LET spacing == m.lead + Len("<div")
         IN  RStripLines((IF m.lead > 0 THEN <<Spaces(m.lead)>> ELSE <<>>)
                         \o <<TagTok, SpTok>>
                         \o JoinGroups(cfg, StripToks(m.attrs), spacing)
                         \o m.close)

\* format_attributes(config, html, match); child_of_ignored is the result of
\* child_of_ignored_block(config, html, match)
format_attributes(cfg, child_of_ignored, m) ==
    IF ~Rewrites(cfg, child_of_ignored, m)
    THEN MatchText(m)
    ELSE LET spacing == m.lead + Len("<div") + 1
         IN  RStripLines((IF m.lead > 0 THEN <<Spaces(m.lead)>> ELSE <<>>)
                         \o <<TagTok, SpTok>>
                         \o JoinGroups(cfg, StripToks(m.attrs), spacing)
                         \o m.close)

----------------------------------------------------------------------------
(* format_attributes applied to one tag match, as                            *)
(* apply_indentation_substitution does for every tag of a line              *)

AttrStrings == {
    <<SpTok, Attr("id", DQuote, <<"x">>)>>,                                \*  id="x"
    <<Spaces(2), Attr("id", DQuote, <<"x">>)>>,                            \*   id="x"
    <<SpTok, Attr("id", Quote, <<"x">>)>>,                                 \*  id='x'
    <<SpTok, Attr("id", DQuote, <<"x">>), SpTok, ClassTok(<<UserClass("y")>>)>>,
    <<SpTok, Attr("id", DQuote, <<"x">>), Spaces(2), Attr("required", "", <<>>)>>,
    <<SpTok, Attr("id", "", <<"x">>), SpTok, Attr("required", "", <<>>)>>, \*  id=x required
    <<SpTok, StyleTok(<<"a", ";", " ", "b", ";">>)>>,                      \*  style="a; b;"
    <<SpTok, StyleTok(<<"a">>), SpTok, Attr("id", DQuote, <<"x">>)>>,      \*  style="a" id="x"
    <<SpTok, Attr("style", "", <<>>), SpTok, Attr("id", DQuote, <<"x">>)>>,\*  style id="x"
    \*  id="x" title="y <newline>z": a value whose first line ends with a space
    <<SpTok, Attr("id", DQuote, <<"x">>), SpTok,
      Attr("title", DQuote, <<"y", " ", "\n", "z">>)>>
}

Leads == {0, 4}
Closes == {<<GtTok>>, <<SpTok, GtTok>>}
MaxAttributeLengths == {7, 13, 70}
\* config.max_line_length, and the tag_size format_set and format_function
\* measure for {% set %} and {{ f() }}
MaxLineLengths == {19, 20, 21}
TagSizes == {12, 9}
\* config.ignored_attributes: the default, and the default with style added
IgnoredAttributes == {{"href"}, {"href", "style"}}

InitAttr ==
    /\ fa_cfg \in [max_attribute_length : MaxAttributeLengths,
                   format_attribute_template_tags : BOOLEAN,
                   ignored_attributes : IgnoredAttributes,
                   indent : {4}]
    /\ fa_match \in [lead : Leads, attrs : AttrStrings, close : Closes]
    /\ fa_ignored \in BOOLEAN
    /\ fa_pc = "call"
    /\ fa_out = <<>>

FormatAttributesReturns ==
    /\ fa_pc = "call"
    /\ ~SplitsNone(fa_cfg, fa_ignored, fa_match)
    /\ fa_out' = format_attributes(fa_cfg, fa_ignored, fa_match)
    /\ fa_pc' = "returned"
    /\ UNCHANGED <<fa_cfg, fa_match, fa_ignored, beside_attr>>

FormatAttributesRaises ==
    /\ fa_pc = "call"
    /\ SplitsNone(fa_cfg, fa_ignored, fa_match)
    /\ fa_pc' = "raised"
    /\ UNCHANGED <<fa_cfg, fa_match, fa_ignored, fa_out, beside_attr>>

NextAttr == FormatAttributesReturns \/ FormatAttributesRaises


\* the number of spaces each line of a value after the first one starts with
ContinuationColumns(val) ==
    LET parts == SplitOn(val, "\n")
    IN  {Len(parts[i]) - Len(LStripWs(parts[i])) : i \in 2..Len(parts)}

\* the column of the first character of the value of attribute tok of match m
ValueColumn(m, tok) == m.lead + Len("<div") + 1 + Len(tok.name) + 2

\* the segments of a style value, without their indentation
Segments(val) == StrippedNonEmpty(SplitOn(val, ";"))

\* C33: in a reflowed tag every continuation segment of a style value starts
\* at the column of the value's first character, whatever
\* format_attribute_template_tags and ignored_attributes are, and the empty
\* segments between semicolons are dropped.
C33_StyleContinuationColumn ==
    (fa_pc = "returned" /\ Rewrites(fa_cfg, fa_ignored, fa_match)) =>
        \A i \in DOMAIN fa_out : \A j \in DOMAIN fa_match.attrs :
            (/\ fa_out[i].t = "attr" /\ fa_out[i].name = "style"
             /\ fa_match.attrs[j].t = "attr" /\ fa_match.attrs[j].name = "style") =>
                /\ ContinuationColumns(fa_out[i].val)
                        \subseteq {ValueColumn(fa_match, fa_out[i])}
                /\ Segments(fa_out[i].val) = Segments(AttribValue(fa_match.attrs[j]))

\* the attribute groups of a token sequence, in order
AttrGroups(toks) == SelectSeq(toks, LAMBDA tok : tok.t = "attr")

\* no line of the text ends with a space
NoTrailingWhitespace(toks) ==
    \A i \in DOMAIN toks :
        /\ toks[i].t = "sp" => (i < Len(toks) /\ toks[i + 1].t # "nl")
        /\ toks[i].t = "attr" =>
              \A k \in 1..(Len(toks[i].val) - 1) :
                  ~(toks[i].val[k] = " " /\ toks[i].val[k + 1] = "\n")

\* C34: a rewritten tag starts with the original leading whitespace and tag
\* name, ends with the original closing bracket, lists the attribute groups
\* in their original order, the first on the tag's line and each of the rest
\* on a line of its own at the column after the tag name, and no line of it
\* has trailing whitespace.
C34_RewrittenTagShape ==
    (fa_pc = "returned" /\ Rewrites(fa_cfg, fa_ignored, fa_match)) =>
        LET pre == (IF fa_match.lead > 0 THEN <<Spaces(fa_match.lead)>> ELSE <<>>)
                   \o <<TagTok, SpTok>>
            close == fa_match.close
            groups == AttrGroups(fa_match.attrs)
            n == Len(groups)
            body == SubSeq(fa_out, Len(pre) + 1, Len(fa_out) - Len(close))
        IN  /\ Len(fa_out) = Len(pre) + (3 * n - 2) + Len(close)
            /\ SubSeq(fa_out, 1, Len(pre)) = pre
            /\ SubSeq(fa_out, Len(fa_out) - Len(close) + 1, Len(fa_out)) = close
            /\ \A k \in 1..n : /\ body[3 * k - 2].t = "attr"
                                /\ body[3 * k - 2].name = groups[k].name
            /\ \A k \in 1..(n - 1) :
                  /\ body[3 * k - 1] = NlTok
                  /\ body[3 * k] = Spaces(fa_match.lead + Len("<div") + 1)
            /\ NoTrailingWhitespace(fa_out)

\* a tag with leading whitespace, two attribute groups and a value line that
\* ends with a space has been rewritten
C34_Witness ==
    /\ fa_pc = "returned"
    /\ Rewrites(fa_cfg, fa_ignored, fa_match)
    /\ fa_match.lead > 0
    /\ Len(AttrGroups(fa_match.attrs)) = 2
    /\ ~NoTrailingWhitespace(fa_match.attrs)
    /\ fa_out # MatchText(fa_match)

\* C6: format_attributes returns the matched tag text unchanged whenever the
\* stripped attribute string is shorter than max_attribute_length or the tag
\* is a child of an ignored block, and a tag it returns changed has a
\* stripped attribute string of at least max_attribute_length.
C6_ThresholdGating ==
    fa_pc = "returned" =>
        /\ (fa_ignored \/ TextLen(StripToks(fa_match.attrs)) < fa_cfg.max_attribute_length)
               => fa_out = MatchText(fa_match)
        /\ fa_out # MatchText(fa_match)
               => TextLen(StripToks(fa_match.attrs)) >= fa_cfg.max_attribute_length

\* C6 witness: a tag whose unstripped attribute string reaches the threshold
\* while its stripped one does not is returned unchanged, not being ignored.
C6_Witness ==
    /\ fa_pc = "returned"
    /\ ~fa_ignored
    /\ TextLen(fa_match.attrs) >= fa_cfg.max_attribute_length
    /\ TextLen(StripToks(fa_match.attrs)) < fa_cfg.max_attribute_length
    /\ fa_out = MatchText(fa_match)

\* a tag at or above the threshold is returned rewritten
C6_RewrittenReached ==
    /\ fa_pc = "returned"
    /\ fa_out # MatchText(fa_match)


----------------------------------------------------------------------------
(* formatter/indent.py: process_indentation                                  *)
(*                                                                           *)
(* A line is [f, html]: html is its text, f the set of patterns it matches.  *)
(* The patterns of djlint.helpers and of the config are not part of the      *)
(* sources at hand; what they match is an attribute of the line.            *)

Has(line, feature) == feature \in line.f

\* djlint.helpers
is_ignored_block_opening(line) == Has(line, "opening")
is_ignored_block_closing(line) == Has(line, "closing")
is_safe_closing_tag(line) == Has(line, "safe_closing")
is_script_style_block_opening(line) == Has(line, "script_opening")
is_script_style_block_closing(line) == Has(line, "script_closing")
child_of_ignored_block(line) == Has(line, "ignored_child")

\* re.findall(rf"^\s*?(?:{config.ignored_inline_blocks})", item) and is_block_raw is False
inline_ignored(line, raw) == Has(line, "inline_block") /\ ~raw

should_indent(line, raw) == Has(line, "slt") /\ ~raw

check_formatting_conditions(line, raw, in_set, cfg) ==
    /\ ~cfg.no_set_formatting
    /\ Has(line, "set_close")
    /\ ~raw
    /\ in_set

check_closing_conditions(line, raw, in_set, cfg) ==
    /\ ~cfg.no_set_formatting
    /\ Has(line, "br_close")
    /\ ~raw
    /\ in_set

check_item_conditions(line, raw) ==
    /\ Has(line, "unindent")
    /\ ~raw
    /\ ~is_safe_closing_tag(line)
    /\ ~Has(line, "slt_tail")

check_html_tags(line) == Has(line, "slt_start")

check_unindent_condition(line, raw) == Has(line, "unindent_line") /\ ~raw

\* the set-open condition, were it not to look at no_set_formatting
check_set_formatting_condition_always(line, raw, in_set, cfg) ==
    /\ Has(line, "set_open")
    /\ ~raw
    /\ ~in_set

check_set_formatting_condition(line, raw, in_set, cfg) ==
    /\ ~cfg.no_set_formatting
    /\ Has(line, "set_open")
    /\ ~raw
    /\ ~in_set

\* the bracket-open condition, were it not to look at in_set_tag
check_complex_condition_any_scope(line, raw, in_set, cfg) ==
    /\ ~cfg.no_set_formatting
    /\ Has(line, "br_open")
    /\ ~raw

check_complex_condition(line, raw, in_set, cfg) ==
    /\ ~cfg.no_set_formatting
    /\ Has(line, "br_open")
    /\ ~raw
    /\ in_set

check_indent_condition(line, raw) == Has(line, "indent") /\ ~raw

Max(a, b) == IF a >= b THEN a ELSE b

\* mutant: the decrement is not clamped
DecrementUnclamped(level) == level - 1

\* max(indent_level - 1, 0)
Decrement(level) == Max(level - 1, 0)

\* mutant: the ignore-level decrement is not clamped
DecrementIgnoredUnclamped(level) == level - 1

\* ignored_level -= 1; ignored_level = max(ignored_level, 0)
DecrementIgnored(level) == Max(level - 1, 0)

\* (indent * k) + item + "\n"; a str times a negative number is ""
Indented(indent, k, line) ==
    (IF k > 0 THEN <<Spaces(k * indent)>> ELSE <<>>) \o line.html \o <<NlTok>>

\* item + "\n"
Verbatim(line) == line.html \o <<NlTok>>

\* indent.py:595-610: the raw-block bookkeeping before the line is classified
BeforeCascade(st, line) ==
    LET first == IF ~st.is_block_raw /\ is_ignored_block_opening(line)
                 THEN TRUE ELSE st.is_raw_first_line
        raw1 == IF is_ignored_block_opening(line) THEN TRUE ELSE st.is_block_raw
        lvl1 == IF is_ignored_block_opening(line)
                THEN st.ignored_level + 1 ELSE st.ignored_level
        script == IF is_script_style_block_opening(line)
                  THEN TRUE ELSE st.in_script_style_tag
        lvl2 == IF is_safe_closing_tag(line) THEN DecrementIgnored(lvl1) ELSE lvl1
        raw2 == IF is_safe_closing_tag(line) /\ raw1 /\ lvl2 = 0 THEN FALSE ELSE raw1
    IN  [st EXCEPT !.is_raw_first_line = first, !.is_block_raw = raw2,
                   !.ignored_level = lvl2, !.in_script_style_tag = script]

\* indent.py:612-706: the cascade; the first condition that holds decides the
\* line's text (tmp) and the new indent_level and in_set_tag
Cascade(st, line, cfg) ==
    LET raw == st.is_block_raw
        lvl == st.indent_level
        set == st.in_set_tag
        R(taken, text, level, in_set) ==
            [st EXCEPT !.branch = taken, !.tmp = text,
                       !.indent_level = level, !.in_set_tag = in_set]
    IN  IF inline_ignored(line, raw) THEN R("inline", Indented(cfg.indent, lvl, line), lvl, set)
        ELSE IF should_indent(line, raw) THEN R("slt", Indented(cfg.indent, lvl, line), lvl, set)
        ELSE IF check_formatting_conditions(line, raw, set, cfg)
             THEN R("set_close", Indented(cfg.indent, Decrement(lvl), line), Decrement(lvl), FALSE)
        ELSE IF check_closing_conditions(line, raw, set, cfg)
             THEN R("bracket_close", Indented(cfg.indent, Decrement(lvl), line), Decrement(lvl), set)
        ELSE IF check_item_conditions(line, raw)
             THEN IF check_html_tags(line)
                  THEN R("unindent_after", Indented(cfg.indent, lvl, line), Decrement(lvl), set)
                  ELSE R("unindent", Indented(cfg.indent, Decrement(lvl), line), Decrement(lvl), set)
        ELSE IF check_unindent_condition(line, raw)
             THEN R("unindent_line", Indented(cfg.indent, lvl - 1, line), lvl, set)
        ELSE IF check_set_formatting_condition(line, raw, set, cfg)
             THEN R("set_open", Indented(cfg.indent, lvl, line), lvl + 1, TRUE)
        ELSE IF check_complex_condition(line, raw, set, cfg)
             THEN R("bracket_open", Indented(cfg.indent, lvl, line), lvl + 1, set)
        ELSE IF check_indent_condition(line, raw)
             THEN R("indent", Indented(cfg.indent, lvl, line), lvl + 1, set)
        ELSE IF st.is_raw_first_line \/ (is_safe_closing_tag(line) /\ ~raw)
             THEN R("raw_first_line", Indented(cfg.indent, lvl, line), lvl, set)
        ELSE IF raw \/ Has(line, "blank")
             THEN R(IF raw THEN "raw" ELSE "blank", Verbatim(line), lvl, set)
        ELSE IF ~cfg.preserve_leading_space
             THEN R("default", Indented(cfg.indent, lvl, line), lvl, set)
        ELSE R("preserved", Verbatim(line), lvl, set)

\* apply_indentation_substitution: format_attributes on every tag of tmp that
\* carries attributes; the whitespace run before the tag is the match's group 1
RECURSIVE SubstituteTags(_, _, _)
SubstituteTags(cfg, line, toks) ==
    IF toks = <<>> THEN <<>>
    ELSE LET lead == IF Head(toks).t = "sp" THEN Head(toks).n ELSE 0
             rest == IF lead > 0 THEN Tail(toks) ELSE toks
             gts == {j \in DOMAIN rest : rest[j].t = "gt"}
         IN  IF rest # <<>> /\ Head(rest).t = "tag" /\ gts # {}
             THEN LET j == CHOOSE k \in gts : \A l \in gts : k <= l
                      inner == SubSeq(rest, 2, j - 1)
                      spaced == Len(inner) > 1 /\ inner[Len(inner)] = SpTok
                      m == [lead |-> lead,
                            attrs |-> IF spaced THEN SubSeq(inner, 1, Len(inner) - 1)
                                      ELSE inner,
                            close |-> IF spaced THEN <<SpTok, GtTok>> ELSE <<GtTok>>]
                  IN  (IF inner = <<>>
                       THEN SubSeq(toks, 1, Len(toks) - Len(rest) + j)
                       ELSE format_attributes(cfg, child_of_ignored_block(line), m))
                      \o SubstituteTags(cfg, line, SubSeq(rest, j + 1, Len(rest)))
             ELSE <<Head(toks)>> \o SubstituteTags(cfg, line, Tail(toks))

\* some tag of tmp makes format_attributes raise
RECURSIVE SubstituteRaises(_, _, _)
SubstituteRaises(cfg, line, toks) ==
    IF toks = <<>> THEN FALSE
    ELSE LET gts == {j \in DOMAIN toks : toks[j].t = "gt"}
         IN  IF Head(toks).t = "tag" /\ gts # {}
             THEN LET j == CHOOSE k \in gts : \A l \in gts : k <= l
                      m == [lead |-> 0, attrs |-> SubSeq(toks, 2, j - 1), close |-> <<GtTok>>]
                  IN  \/ (j > 2 /\ SplitsNone(cfg, child_of_ignored_block(line), m))
                      \/ SubstituteRaises(cfg, line, SubSeq(toks, j + 1, Len(toks)))
             ELSE SubstituteRaises(cfg, line, Tail(toks))

\* indent.py:708-718: the raw flag of an opening line, else the attribute reflow
AfterCascade(st, line, cfg) ==
    IF is_ignored_block_opening(line)
    THEN [st EXCEPT !.is_block_raw = TRUE, !.is_raw_first_line = FALSE]
    ELSE IF ~st.is_block_raw
         THEN [st EXCEPT !.tmp = SubstituteTags(cfg, line, st.tmp)]
         ELSE st

\* the end of a raw block, were raw mode cleared whatever ignored_level is
CloseRawAtAnyLevel(st, line) ==
    IF is_ignored_block_closing(line)
       /\ (~st.in_script_style_tag
           \/ (st.in_script_style_tag /\ is_script_style_block_closing(line)))
    THEN LET lvl == IF ~is_safe_closing_tag(line)
                    THEN DecrementIgnored(st.ignored_level) ELSE st.ignored_level
         IN  [st EXCEPT !.in_script_style_tag = FALSE,
                        !.ignored_level = lvl,
                        !.is_block_raw = FALSE]
    ELSE st

\* indent.py:722-735: the end of a raw block
CloseRaw(st, line) ==
    IF is_ignored_block_closing(line)
       /\ (~st.in_script_style_tag
           \/ (st.in_script_style_tag /\ is_script_style_block_closing(line)))
    THEN LET lvl == IF ~is_safe_closing_tag(line)
                    THEN DecrementIgnored(st.ignored_level) ELSE st.ignored_level
         IN  [st EXCEPT !.in_script_style_tag = FALSE,
                        !.ignored_level = lvl,
                        !.is_block_raw = IF lvl = 0 THEN FALSE ELSE st.is_block_raw]
    ELSE st

----------------------------------------------------------------------------
(* The lines process_indentation is run on                                   *)

Line(f, html) == [f |-> f, html |-> html]

Lines == {
    Line({}, <<TextTok>>),                                              \* text
    Line({"blank"}, <<>>),                                              \* (empty line)
    Line({"indent"}, <<TagTok, GtTok>>),                                \* <div>
    Line({"unindent"}, <<Txt("</div>")>>),                              \* </div>
    Line({"slt", "unindent", "slt_tail", "slt_start", "indent"},
         <<TagTok, GtTok, Txt("x</span>")>>),                           \* <span>x</span>
    Line({"unindent", "slt_start", "indent"},
         <<TagTok, GtTok, Txt("x</span></div>")>>),                     \* <span>x</span></div>
    Line({"indent"}, <<TagTok, SpTok, StyleTok(SA), GtTok>>),           \* <div style="a">
    Line({"indent"}, <<TagTok, SpTok, Attr("id", DQuote, <<"x">>), SpTok,
                       ClassTok(<<Y>>), GtTok>>),                       \* <div id="x" class="y">
    Line({"indent"}, <<TagTok, SpTok, Attr("style", "", <<>>), SpTok,
                       Attr("id", DQuote, <<"x">>), GtTok>>),           \* <div style id="x">
    Line({"indent", "opening"}, <<TagTok, GtTok, Txt("pre")>>),         \* <pre>
    Line({"unindent", "closing", "safe_closing"}, <<Txt("</pre>")>>),   \* </pre>
    Line({"slt", "unindent", "slt_tail", "slt_start", "indent", "closing"},
         <<TagTok, GtTok, Txt("x</pre>")>>),                            \* <pre>x</pre>
    Line({"indent", "opening", "script_opening"},
         <<TagTok, GtTok, Txt("script")>>),                             \* <script>
    Line({"unindent", "closing", "safe_closing", "script_closing"},
         <<Txt("</script>")>>),                                         \* </script>
    Line({"set_open", "br_open"}, <<Txt("{% set x = {")>>),             \* {% set x = {
    Line({"set_close"}, <<Txt("%}")>>),                                 \* %}
    Line({"set_close", "br_close"}, <<Txt("} %}")>>),                   \* } %}
    Line({"br_open"}, <<Txt("a: {")>>),                                 \* "a": {
    Line({"br_close"}, <<Txt("}")>>),                                   \* }
    Line({"unindent_line"}, <<Txt("{% else %}")>>),                     \* {% else %}
    Line({"inline_block", "slt"}, <<Txt("{# c #}")>>),                  \* {# c #}
    Line({"opening"}, <<Txt("{% comment %}")>>),                        \* {% comment %}
    Line({"closing"}, <<Txt("{% endcomment %}")>>),                     \* {% endcomment %}
    Line({"opening", "closing"}, <<Txt("{% comment %}x{% endcomment %}")>>),
    Line({"opening", "script_opening", "closing", "script_closing"},
         <<TagTok, GtTok, Txt("x</script>")>>)                          \* <script>x</script>
}

MaxLines == 4

Configs ==
    [indent : {2, 4}, preserve_leading_space : BOOLEAN, no_set_formatting : BOOLEAN,
     max_attribute_length : {10, 70}, format_attribute_template_tags : {FALSE}]

\* the two clean_inline_style_to_css_class the call of indent.py:720 can meet:
\* the one of cssstyle.py:41, whose this_file it does not pass, and the
\* two-parameter one it is written against
Extractors == {"this_file_required", "two_parameter"}

NoLine == Line({}, <<>>)

\* the line is none of an ignored-block opening, closing or safe closing tag
PlainLine(line) ==
    /\ ~is_ignored_block_opening(line)
    /\ ~is_ignored_block_closing(line)
    /\ ~is_safe_closing_tag(line)
    /\ ~is_script_style_block_opening(line)
    /\ ~is_script_style_block_closing(line)

\* how far a script/style block that holds a nested ignored block has been
\* read after `line`: "script" after its opening line read outside raw mode,
\* "nested" after the opening of the block inside it, "unnested" after that
\* block's closing (not a safe closing tag), "closed" after the closing of
\* the script/style block
RawTraceAfter(trace, raw, line) ==
    IF PlainLine(line) /\ trace \in {"script", "nested", "unnested"} THEN trace
    ELSE IF /\ trace = "script"
            /\ is_ignored_block_opening(line)
            /\ ~is_ignored_block_closing(line)
            /\ ~is_safe_closing_tag(line)
            /\ ~is_script_style_block_opening(line)
         THEN "nested"
    ELSE IF /\ trace = "nested"
            /\ is_ignored_block_closing(line)
            /\ ~is_ignored_block_opening(line)
            /\ ~is_safe_closing_tag(line)
            /\ ~is_script_style_block_closing(line)
         THEN "unnested"
    ELSE IF /\ trace = "unnested"
            /\ is_script_style_block_closing(line)
            /\ is_ignored_block_closing(line)
            /\ ~is_ignored_block_opening(line)
         THEN "closed"
    ELSE IF /\ ~raw
            /\ is_script_style_block_opening(line)
            /\ is_ignored_block_opening(line)
            /\ ~is_ignored_block_closing(line)
            /\ ~is_safe_closing_tag(line)
         THEN "script"
    ELSE "none"

\* no set assignment is being read
NoScope == [base |-> -1, depth |-> 0, clean |-> FALSE]

\* the set assignment being read after a line the cascade classified as
\* `taken`: a set-open line (indent.py:673-678) starts one at the level it
\* meets, the bracket lines (indent.py:644-648, 680-684) and the set-close
\* line (indent.py:635-641) move its count of open brackets
ScopeAfter(scope, in_set, level, taken, line) ==
    IF taken = "set_open"
    THEN [base |-> level, depth |-> IF Has(line, "br_open") THEN 1 ELSE 0, clean |-> TRUE]
    ELSE IF ~in_set THEN NoScope
    ELSE IF taken = "bracket_open" THEN [scope EXCEPT !.depth = @ + 1]
    ELSE IF taken = "bracket_close" THEN [scope EXCEPT !.depth = @ - 1]
    ELSE IF taken = "set_close"
         THEN [scope EXCEPT !.depth = IF Has(line, "br_close") THEN @ - 1 ELSE @]
    ELSE [scope EXCEPT !.clean = FALSE]

Locals ==
    [indent_level |-> indent_level, in_set_tag |-> in_set_tag,
     is_raw_first_line |-> is_raw_first_line,
     in_script_style_tag |-> in_script_style_tag,
     is_block_raw |-> is_block_raw, ignored_level |-> ignored_level,
     tmp |-> tmp, branch |-> branch]

Before ==
    [indent_level |-> indent_level, ignored_level |-> ignored_level,
     is_block_raw |-> is_block_raw, in_set_tag |-> in_set_tag,
     in_script_style_tag |-> in_script_style_tag]

\* indent.py:575-591
InitLoop ==
    /\ config \in Configs
    /\ extractor \in Extractors
    /\ pc = "loop"
    /\ error = ""
    /\ emitted = 0
    /\ item = NoLine
    /\ tmp = <<>>
    /\ branch = ""
    /\ prev = [indent_level |-> 0, ignored_level |-> 0, is_block_raw |-> FALSE,
               in_set_tag |-> FALSE, in_script_style_tag |-> FALSE]
    /\ indent_level = 0
    /\ in_set_tag = FALSE
    /\ is_raw_first_line = FALSE
    /\ in_script_style_tag = FALSE
    /\ is_block_raw = FALSE
    /\ ignored_level = 0
    /\ set_scope = NoScope
    /\ raw_trace = "none"

SetLocals(st) ==
    /\ indent_level' = st.indent_level
    /\ in_set_tag' = st.in_set_tag
    /\ is_raw_first_line' = st.is_raw_first_line
    /\ in_script_style_tag' = st.in_script_style_tag
    /\ is_block_raw' = st.is_block_raw
    /\ ignored_level' = st.ignored_level
    /\ tmp' = st.tmp
    /\ branch' = st.branch

\* the line reaches the attribute reflow and format_attributes raises on it
ReflowRaises(st, line) ==
    /\ ~is_ignored_block_opening(line)
    /\ ~st.is_block_raw
    /\ SubstituteRaises(config, line, st.tmp)

\* one iteration of the loop (indent.py:593-737) that completes
ProcessLine ==
    /\ pc = "loop"
    /\ emitted < MaxLines
    /\ extractor = "two_parameter"
    /\ \E line \in Lines :
         LET classified == Cascade(BeforeCascade(Locals, line), line, config)
             reflowed == AfterCascade(classified, line, config)
         IN  /\ ~ReflowRaises(classified, line)
             /\ \E order \in Orderings(Range(
                     CleanLoop(css_rules, counter, reflowed.tmp, StyleText).css_classes)) :
                  LET r == clean_inline_style_to_css_class(
                               css_rules, counter, css_file, reflowed.tmp, StyleText, order)
                  IN  /\ css_rules' = r.rules
                      /\ counter' = r.counter
                      /\ css_file' = r.file
                      /\ SetLocals(CloseRaw([reflowed EXCEPT !.tmp = r.html], line))
             /\ set_scope' = ScopeAfter(set_scope, in_set_tag, indent_level,
                                        classified.branch, line)
             /\ raw_trace' = RawTraceAfter(raw_trace, is_block_raw, line)
             /\ item' = line
    /\ prev' = Before
    /\ emitted' = emitted + 1
    /\ UNCHANGED <<config, extractor, pc, error, beside_loop>>

\* an iteration that ends at indent.py:718: format_attributes raises
\* AttributeError on a style attribute without value
ProcessLineReflowRaises ==
    /\ pc = "loop"
    /\ emitted < MaxLines
    /\ \E line \in Lines :
         LET classified == Cascade(BeforeCascade(Locals, line), line, config)
         IN  /\ ReflowRaises(classified, line)
             /\ SetLocals(classified)
             /\ set_scope' = ScopeAfter(set_scope, in_set_tag, indent_level,
                                        classified.branch, line)
             /\ raw_trace' = RawTraceAfter(raw_trace, is_block_raw, line)
             /\ item' = line
    /\ prev' = Before
    /\ pc' = "raised"
    /\ error' = "AttributeError"
    /\ UNCHANGED <<config, extractor, emitted, css_rules, counter, css_file, beside_loop>>

\* an iteration that ends at indent.py:720: the call passes config and html
\* only, and cssstyle.py:41 has a third parameter without default
ProcessLineStyleCallRaises ==
    /\ pc = "loop"
    /\ emitted < MaxLines
    /\ extractor = "this_file_required"
    /\ \E line \in Lines :
         LET classified == Cascade(BeforeCascade(Locals, line), line, config)
         IN  /\ ~ReflowRaises(classified, line)
             /\ SetLocals(AfterCascade(classified, line, config))
             /\ set_scope' = ScopeAfter(set_scope, in_set_tag, indent_level,
                                        classified.branch, line)
             /\ raw_trace' = RawTraceAfter(raw_trace, is_block_raw, line)
             /\ item' = line
    /\ prev' = Before
    /\ pc' = "raised"
    /\ error' = "TypeError"
    /\ UNCHANGED <<config, extractor, emitted, css_rules, counter, css_file, beside_loop>>

----------------------------------------------------------------------------
(* reformat.py: formatter                                                    *)

\* documents: the empty one and one-line ones
Documents == {<<>>} \cup {<<line>> : line \in Lines}

InitFormatter ==
    /\ f_config \in Configs
    /\ f_rawcode \in Documents
    /\ f_eol \in (IF f_rawcode = <<>> THEN {""} ELSE {"", "\n", "\r\n"})
    /\ f_file \in Files
    /\ f_pc = "call"
    /\ f_pass = 0
    /\ f_first = <<>>
    /\ f_out = <<>>

\* the document a pass is given: rawcode, then what the pass before returned
PassInput == IF f_pass = 0 THEN f_rawcode ELSE f_out

MaxPasses == 2

\* reformat.py:22-23: `if not rawcode: return rawcode`
FormatterReturnsEmpty ==
    /\ f_pc \in {"call", "returned"}
    /\ f_pass < MaxPasses
    /\ PassInput = <<>>
    /\ f_out' = PassInput
    /\ f_first' = IF f_pass = 0 THEN PassInput ELSE f_first
    /\ f_pass' = f_pass + 1
    /\ f_pc' = "returned"
    /\ UNCHANGED <<f_config, f_rawcode, f_file, f_eol, beside_formatter>>

\* reformat.py:26-34: indent_html(rawcode, config) is called with this_file=,
\* a keyword it does not have
FormatterRaises ==
    /\ f_pc \in {"call", "returned"}
    /\ f_pass < MaxPasses
    /\ PassInput # <<>>
    /\ f_pass' = f_pass + 1
    /\ f_pc' = "raised"
    /\ UNCHANGED <<f_config, f_rawcode, f_file, f_eol, f_first, f_out, beside_formatter>>

----------------------------------------------------------------------------
(* Two workers at the end of clean_inline_style_to_css_class                 *)
(* (cssstyle.py:78-79), each with its own config, on one css_file_path.      *)
(* A step is one open() ... close() of the file: the append of              *)
(* create_css_file, the read of remove_duplicate_classes, its rewrite.      *)

Workers == {"f1", "f2"}

\* the css_rules a worker has built from the lines of its file
WorkerRules(w) == {
    <<<<MintName(w, SA, 0), SA>>>>,
    <<<<MintName(w, SA, 0), SA>>, <<MintName(w, SB, 2), SB>>>>
}

InitWorkers ==
    /\ w_file \in CssFiles
    /\ w_rules \in {f \in [Workers -> UNION {WorkerRules(w) : w \in Workers}] :
                      \A w \in Workers : f[w] \in WorkerRules(w)}
    /\ w_pc = [w \in Workers |-> "append"]
    /\ w_read = [w \in Workers |-> <<>>]

\* cssstyle.py:112-114
WorkerAppend(w) ==
    /\ w_pc[w] = "append"
    /\ w_file' = create_css_file(w_file, w_rules[w])
    /\ w_pc' = [w_pc EXCEPT ![w] = "read"]
    /\ UNCHANGED <<w_rules, w_read, beside_workers>>

\* cssstyle.py:125-127
WorkerRead(w) ==
    /\ w_pc[w] = "read"
    /\ w_read' = [w_read EXCEPT ![w] = w_file]
    /\ w_pc' = [w_pc EXCEPT ![w] = "write"]
    /\ UNCHANGED <<w_file, w_rules, beside_workers>>

\* cssstyle.py:129-141
WorkerWrite(w) ==
    /\ w_pc[w] = "write"
    /\ w_file' = remove_duplicate_classes(w_read[w])
    /\ w_pc' = [w_pc EXCEPT ![w] = "done"]
    /\ UNCHANGED <<w_rules, w_read, beside_workers>>

NextWorkers == \E w \in Workers : WorkerAppend(w) \/ WorkerRead(w) \/ WorkerWrite(w)

----------------------------------------------------------------------------
(* rules/H025.py                                                             *)
(*                                                                           *)
(* A document is the sequence of the tags the pattern of H025.py:31-37      *)
(* finds in it; a tag is [name, close].  A finding is the place of its tag. *)

Tag(name, close) == [name |-> name, close |-> close]

\* config.always_self_closing_html_tags
AlwaysSelfClosing == {"br"}

TagNames == {"a", "b", "br"}

MaxTags == 3

TagDocuments ==
    UNION {[1..n -> [name : TagNames, close : BOOLEAN]] : n \in 0..MaxTags}

\* open_tags.pop(i) for the first i whose tag has the name (H025.py:47-50);
\* open_tags holds places, the most recently opened first
RECURSIVE PopFirst(_, _, _)
PopFirst(html, open_tags, name) ==
    IF open_tags = <<>> THEN <<>>
    ELSE IF html[Head(open_tags)].name = name THEN Tail(open_tags)
    ELSE <<Head(open_tags)>> \o PopFirst(html, Tail(open_tags), name)

\* the scan of H025.py:31-52 from place i on
RECURSIVE Scan(_, _, _, _)
Scan(html, i, open_tags, orphan_tags) ==
    IF i > Len(html) THEN open_tags \o orphan_tags
    ELSE IF html[i].name \in AlwaysSelfClosing
         THEN Scan(html, i + 1, open_tags, orphan_tags)
    ELSE IF ~html[i].close
         THEN Scan(html, i + 1, <<i>> \o open_tags, orphan_tags)
    ELSE IF \E k \in DOMAIN open_tags : html[open_tags[k]].name = html[i].name
         THEN Scan(html, i + 1, PopFirst(html, open_tags, html[i].name), orphan_tags)
    ELSE Scan(html, i + 1, open_tags, Append(orphan_tags, i))

\* run(rule, config, html, filepath, line_ends) on a document without
\* ignored regions: the places of the findings, in the order reported
run(html) == Scan(html, 1, <<>>, <<>>)

\* the loop of H025.py:54-67 on a document whose tags at the places ignored
\* lie in a raw block or an ignore region: a finding is kept if none of
\* overlaps_ignored_block, inside_ignored_rule, inside_ignored_linter_block
\* holds of its tag
Findings(html, ignored) == SelectSeq(run(html), LAMBDA place : place \notin ignored)

InitRule ==
    /\ h_html \in TagDocuments
    /\ h_ignored \in SUBSET DOMAIN h_html
    /\ h_pc = "load"
    /\ h_errors = <<>>

\* H025.py:4: `from typing import Any, dict, list`; typing has no dict and
\* no list, so loading the rule module raises ImportError
LoadRuleRaises ==
    /\ h_pc = "load"
    /\ h_pc' = "raised"
    /\ UNCHANGED <<h_html, h_ignored, h_errors, beside_rule>>

NextRule == LoadRuleRaises

----------------------------------------------------------------------------
(* Specifications: each runs one part and leaves the others idle             *)

----------------------------------------------------------------------------
(* add_indentation applied to one attribute value, as format_template_tags  *)
(* does after it has put the template tags on lines of their own            *)

MaxValueLines == 4

\* lines of an attribute value, each with the pattern its stripped text
\* matches
TemplateLines == {
    ValueLine("text", <<" ", "x">>),
    ValueLine("template_indent", <<"{% if a %}">>),
    ValueLine("tag_unindent_line", <<"{% else %}">>),
    ValueLine("template_unindent", <<"{% endif %}">>)
}

AttributeValues ==
    UNION {[1..n -> TemplateLines] : n \in 1..MaxValueLines}

InitIndentation ==
    /\ ai_config \in [indent : {2, 4}]
    /\ ai_attributes \in AttributeValues
    /\ ai_spacing \in {0, 12}
    /\ ai_pc = "call"
    /\ ai_indented = <<>>

AddIndentationReturns ==
    /\ ai_pc = "call"
    /\ ai_indented' = add_indentation(ai_config, ai_attributes, ai_spacing)
    /\ ai_pc' = "returned"
    /\ UNCHANGED <<ai_config, ai_attributes, ai_spacing, beside_indentation>>

NextIndentation == AddIndentationReturns

----------------------------------------------------------------------------
(* formatter/indent.py: format_data, called by format_set and               *)
(* format_function with the value of a set or function tag                  *)

\* what json.loads makes of a value: an object with one key, a list of two
\* numbers, a number, or nothing (the parser raises)
NoData == [kind |-> "none"]

\* json.dumps(data, trailing_commas=False, ensure_ascii=False, quote_keys=True)
Dumps(data) ==
    CASE data.kind = "object" -> <<"{", "\"", "a", "\"", ":", " ", "1", "}">>
      [] data.kind = "list" -> <<"[", "1", ",", " ", "2", "]">>
      [] OTHER -> <<"1">>

\* json.dumps(data, indent=config.indent_size, ...)
DumpsIndented(data, indent_size) ==
    CASE data.kind = "object" ->
            <<"{", "\n">> \o Rep(" ", indent_size) \o <<"\"", "a", "\"", ":", " ", "1">> \o <<"\n", "}">>
      [] data.kind = "list" ->
            <<"[", "\n">> \o Rep(" ", indent_size) \o <<"1", ",", "\n">>
            \o Rep(" ", indent_size) \o <<"2", "\n", "]">>
      [] OTHER -> <<"1">>

\* a value: its text, what json.loads returns for it, and what eval does
\* with it ("value": returns evaluated, "raises": raises an Exception,
\* "exits": raises SystemExit)
Value(text, data, eval, evaluated) ==
    [text |-> text, data |-> data, eval |-> eval, evaluated |-> evaluated]

DataValues == {
    Value(<<"{", "\"", "a", "\"", ":", " ", "1", "}">>, [kind |-> "object"], "raises", <<>>),   \* {"a": 1}
    Value(<<"[", "1", ",", "2", "]">>, [kind |-> "list"], "value", <<"[", "1", ",", " ", "2", "]">>),        \* [1,2]
    Value(<<"1">>, [kind |-> "scalar"], "value", <<"1">>),
    Value(<<"a", " ", "b">>, NoData, "raises", <<>>),                \* a b
    Value(<<" ", "a", " ", "b", "\n", " ", " ", "c", " ", "d", " ">>, NoData, "raises", <<>>),  \* " a b<newline>  c d "
    Value(<<"e", "x", "i", "t", "(", ")">>, NoData, "exits", <<>>),                 \* exit()
    Value(<<"1", "+", "1">>, NoData, "value", <<"2">>),              \* 1+1
    Value(<<"1", ",", " ", "2">>, NoData, "value", <<"(", "1", ",", " ", "2", ")">>)                    \* 1, 2
}

\* the value after the try statement of format_data (indent.py:457-488)
FormattedContents(cfg, v, tag_size) ==
    IF v.data # NoData
    THEN IF tag_size + Len(Dumps(v.data)) >= cfg.max_line_length
         THEN DumpsIndented(v.data, cfg.indent_size)
         ELSE Dumps(v.data)
    ELSE IF v.eval = "value"
    THEN IF Head(v.text) # "(" /\ Head(v.evaluated) = "("
         THEN SubSeq(v.evaluated, 2, Len(v.evaluated) - 1)
         ELSE v.evaluated
    ELSE StripWs(v.text)

\* eval(contents) ends in an exception that is not an Exception, which
\* neither except clause catches (indent.py:473-488)
EvalExits(v) == v.data = NoData /\ v.eval = "exits"

\* format_data(config, contents, tag_size, leading_space)
format_data(cfg, v, tag_size, leading_space) ==
    Join(SplitLines(FormattedContents(cfg, v, tag_size)),
         <<"\n">> \o Rep(" ", leading_space))

InitData ==
    /\ fd_config \in [max_line_length : MaxLineLengths, indent_size : {2, 4}]
    /\ fd_contents \in DataValues
    /\ fd_tag_size \in TagSizes
    /\ fd_leading_space \in {0, 4}
    /\ fd_pc = "call"
    /\ fd_out = <<>>

FormatDataReturns ==
    /\ fd_pc = "call"
    /\ ~EvalExits(fd_contents)
    /\ fd_out' = format_data(fd_config, fd_contents, fd_tag_size, fd_leading_space)
    /\ fd_pc' = "returned"
    /\ UNCHANGED <<fd_config, fd_contents, fd_tag_size, fd_leading_space, beside_data>>

FormatDataRaises ==
    /\ fd_pc = "call"
    /\ EvalExits(fd_contents)
    /\ fd_pc' = "raised"
    /\ UNCHANGED <<fd_config, fd_contents, fd_tag_size, fd_leading_space, fd_out,
                   beside_data>>

NextData == FormatDataReturns \/ FormatDataRaises

AttrIdle ==
    /\ fa_cfg = [max_attribute_length |-> 70, format_attribute_template_tags |-> FALSE,
                 ignored_attributes |-> {"href"}, indent |-> 4]
    /\ fa_match = [lead |-> 0, attrs |-> <<>>, close |-> <<GtTok>>]
    /\ fa_ignored = FALSE
    /\ fa_pc = "idle"
    /\ fa_out = <<>>

LoopIdle ==
    /\ config = [indent |-> 4, preserve_leading_space |-> FALSE, no_set_formatting |-> FALSE,
                 max_attribute_length |-> 70, format_attribute_template_tags |-> FALSE]
    /\ extractor = "this_file_required"
    /\ pc = "idle"
    /\ error = ""
    /\ emitted = 0
    /\ item = NoLine
    /\ tmp = <<>>
    /\ branch = ""
    /\ prev = [indent_level |-> 0, ignored_level |-> 0, is_block_raw |-> FALSE,
               in_set_tag |-> FALSE, in_script_style_tag |-> FALSE]
    /\ indent_level = 0
    /\ in_set_tag = FALSE
    /\ is_raw_first_line = FALSE
    /\ in_script_style_tag = FALSE
    /\ is_block_raw = FALSE
    /\ ignored_level = 0
    /\ set_scope = NoScope
    /\ raw_trace = "none"

FormatterIdle ==
    /\ f_config = [indent |-> 4, preserve_leading_space |-> FALSE, no_set_formatting |-> FALSE,
                   max_attribute_length |-> 70, format_attribute_template_tags |-> FALSE]
    /\ f_rawcode = <<>>
    /\ f_eol = ""
    /\ f_file = "f1"
    /\ f_pc = "idle"
    /\ f_pass = 0
    /\ f_first = <<>>
    /\ f_out = <<>>

WorkersIdle ==
    /\ w_file = <<>>
    /\ w_rules = <<>>
    /\ w_pc = <<>>
    /\ w_read = <<>>

RuleIdle ==
    /\ h_html = <<>>
    /\ h_ignored = {}
    /\ h_pc = "idle"
    /\ h_errors = <<>>

IndentationIdle ==
    /\ ai_config = [indent |-> 4]
    /\ ai_attributes = <<>>
    /\ ai_spacing = 0
    /\ ai_pc = "idle"
    /\ ai_indented = <<>>

DataIdle ==
    /\ fd_config = [max_line_length |-> 120, indent_size |-> 4]
    /\ fd_contents = <<>>
    /\ fd_tag_size = 0
    /\ fd_leading_space = 0
    /\ fd_pc = "idle"
    /\ fd_out = <<>>

HelpersIdle == IndentationIdle /\ DataIdle

\* process_indentation on a session that starts empty
Init ==
    InitLoop /\ InitCss /\ AttrIdle /\ FormatterIdle /\ WorkersIdle /\ RuleIdle
    /\ HelpersIdle

Next == ProcessLine \/ ProcessLineReflowRaises \/ ProcessLineStyleCallRaises

Spec == Init /\ [][Next]_vars

\* the style extractor called on a session that starts empty
InitSession ==
    InitTables /\ css_file \in CssFiles /\ AttrIdle /\ LoopIdle /\ FormatterIdle
    /\ WorkersIdle /\ RuleIdle /\ HelpersIdle

SpecCss == InitSession /\ [][NextCss]_vars

\* several runs, one after the other, that share one CSS file
InitRuns ==
    InitTables /\ css_file = <<>> /\ AttrIdle /\ LoopIdle /\ FormatterIdle
    /\ WorkersIdle /\ RuleIdle /\ HelpersIdle

NextRuns == NextCss \/ NewSession

SpecRuns == InitRuns /\ [][NextRuns]_vars

\* format_attributes called once
InitCall ==
    InitAttr /\ InitCss /\ LoopIdle /\ FormatterIdle /\ WorkersIdle /\ RuleIdle
    /\ HelpersIdle

SpecAttr == InitCall /\ [][NextAttr]_vars

\* add_indentation called once on an attribute value
InitValue ==
    InitIndentation /\ InitCss /\ AttrIdle /\ LoopIdle /\ FormatterIdle /\ WorkersIdle
    /\ RuleIdle /\ DataIdle

SpecIndentation == InitValue /\ [][NextIndentation]_vars

\* format_data called once on the value of a set or function tag
InitValueData ==
    InitData /\ InitCss /\ AttrIdle /\ LoopIdle /\ FormatterIdle /\ WorkersIdle
    /\ RuleIdle /\ IndentationIdle

SpecData == InitValueData /\ [][NextData]_vars

NextFormatter == FormatterReturnsEmpty \/ FormatterRaises

\* the linter loads H025 for a document
InitLint ==
    InitRule /\ InitCss /\ AttrIdle /\ LoopIdle /\ FormatterIdle /\ WorkersIdle
    /\ HelpersIdle

SpecRule == InitLint /\ [][NextRule]_vars

\* two workers, from the append of the first to the rewrite of the last
InitShared ==
    InitWorkers /\ InitCss /\ AttrIdle /\ LoopIdle /\ FormatterIdle /\ RuleIdle
    /\ HelpersIdle

SpecWorkers == InitShared /\ [][NextWorkers]_vars

\* formatter called on a document, then on what it returned
InitDocument ==
    InitFormatter /\ InitCss /\ AttrIdle /\ LoopIdle /\ WorkersIdle /\ RuleIdle
    /\ HelpersIdle

SpecFormatter == InitDocument /\ [][NextFormatter]_vars

----------------------------------------------------------------------------
(* Claims about process_indentation, checked under Spec *)

\* the branches of the cascade that decrement indent_level
Decrementing == {"set_close", "bracket_close", "unindent_after", "unindent"}

\* C1: indent_level is >= 0 after every line of process_indentation, for
\* every sequence of lines and every config.
C1_IndentLevelNonNegative == indent_level >= 0

\* C1 witness: a line that decrements was classified at indent_level 0 and
\* the level stayed 0.
C1_Witness ==
    /\ branch \in Decrementing
    /\ prev.indent_level = 0
    /\ indent_level = 0

C4_NeverRaises == pc # "raised"

\* C5: ignored_level is >= 0 after every line, for any sequence of
\* ignored-block openings, closings and safe closing tags.
C5_IgnoredLevelNonNegative == ignored_level >= 0

\* C5 witness: a closing line met ignored_level 0, no block being open, and
\* the level stayed 0.
C5_Witness ==
    /\ (is_ignored_block_closing(item) \/ is_safe_closing_tag(item))
    /\ ~is_ignored_block_opening(item)
    /\ prev.ignored_level = 0
    /\ ignored_level = 0

\* is_block_raw as the cascade saw it for the last line (after indent.py:595-610)
RawAtCascade ==
    BeforeCascade([indent_level |-> prev.indent_level, in_set_tag |-> prev.in_set_tag,
                   is_raw_first_line |-> FALSE,
                   in_script_style_tag |-> prev.in_script_style_tag,
                   is_block_raw |-> prev.is_block_raw,
                   ignored_level |-> prev.ignored_level,
                   tmp |-> <<>>, branch |-> ""], item).is_block_raw

\* a line has been read and was not in raw mode
ReadOutsideRaw == item # NoLine /\ ~RawAtCascade

\* the text of the last line, as emitted: k indent units, then the line
EmittedAt(k) == pc = "loop" /\ tmp = Indented(config.indent, k, item)

\* C17: outside raw mode, the opening (indent pattern) line of a block is
\* emitted at the level L it meets and leaves L + 1, a body line is emitted
\* at the level it meets, and the closing (unindent pattern) line that meets
\* L + 1 is emitted at L and leaves L.
C17_BlockIndentation ==
    ReadOutsideRaw =>
        /\ item.f = {"indent"} /\ item.html = <<TagTok, GtTok>>
               => EmittedAt(prev.indent_level) /\ indent_level = prev.indent_level + 1
        /\ item.f = {}
               => EmittedAt(prev.indent_level) /\ indent_level = prev.indent_level
        /\ item.f = {"unindent"} /\ prev.indent_level > 0
               => EmittedAt(prev.indent_level - 1) /\ indent_level = prev.indent_level - 1

\* C18: a line that matches the single-line-tag pattern while not in a raw
\* block is emitted at the current indent level and leaves indent_level and
\* in_set_tag unchanged, whatever else it matches.
C18_SingleLineTagKeepsLevel ==
    (ReadOutsideRaw /\ Has(item, "slt")) =>
        /\ EmittedAt(prev.indent_level)
        /\ indent_level = prev.indent_level
        /\ in_set_tag = prev.in_set_tag

\* C19: a non-blank line outside raw mode that no branch above the default
\* one takes is emitted as it was read when preserve_leading_space is set,
\* with indent_level indent units before it otherwise, and leaves
\* indent_level unchanged.
C19_DefaultBranch ==
    (ReadOutsideRaw /\ branch \in {"default", "preserved"}) =>
        /\ pc = "loop"
        /\ tmp = IF config.preserve_leading_space
                 THEN Verbatim(item)
                 ELSE Indented(config.indent, prev.indent_level, item)
        /\ indent_level = prev.indent_level

\* C22: every line read appends one chunk to the output, the lines in the
\* order read, and moves indent_level by one level at most.
C22_OneTransitionPerLine ==
    [][/\ emitted' = emitted + 1
       /\ pc' = "loop"
       /\ indent_level' - indent_level \in {-1, 0, 1}]_loop_vars

\* C23: a line the tag-unindent branch takes outside raw mode leaves
\* indent_level one lower (not below 0); it is emitted at the lowered level
\* unless it starts with a single-line-tag pair, and at the level it met if
\* it does.
C23_UnindentBeforeOrAfter ==
    (ReadOutsideRaw /\ branch \in {"unindent", "unindent_after"}) =>
        /\ indent_level = Max(prev.indent_level - 1, 0)
        /\ IF check_html_tags(item)
           THEN EmittedAt(prev.indent_level)
           ELSE EmittedAt(indent_level)

\* C24: a line the tag_unindent_line branch takes outside raw mode is emitted
\* one indent unit left of the current level, unindented at level 0, and
\* leaves indent_level, in_set_tag and the raw state as they were.
C24_UnindentLineKeepsLevel ==
    (ReadOutsideRaw /\ branch = "unindent_line") =>
        /\ EmittedAt(Max(prev.indent_level - 1, 0))
        /\ indent_level = prev.indent_level
        /\ in_set_tag = prev.in_set_tag
        /\ is_block_raw = prev.is_block_raw
        /\ ignored_level = prev.ignored_level

OneLineRawBlock == is_ignored_block_opening(item) /\ is_ignored_block_closing(item)

\* C26: a line that opens and closes an ignored block, read while raw mode
\* is off, leaves raw mode off, ignored_level 0 and in_script_style_tag
\* false.
C26_OneLineRawBlock ==
    (OneLineRawBlock /\ ~prev.is_block_raw) =>
        /\ pc = "loop"
        /\ ~is_block_raw
        /\ ignored_level = 0
        /\ ~in_script_style_tag

SetScopeSwitches ==
    /\ (~prev.in_set_tag /\ in_set_tag) =>
           branch = "set_open" /\ Has(item, "set_open") /\ ~RawAtCascade
    /\ (prev.in_set_tag /\ ~in_set_tag) => branch = "set_close"
    /\ branch = "set_open" => ~prev.in_set_tag /\ in_set_tag
    /\ branch = "bracket_open" =>
           prev.in_set_tag /\ in_set_tag /\ indent_level = prev.indent_level + 1

SetBranches == {"set_open", "set_close", "bracket_open", "bracket_close"}

\* a line that matches set or bracket patterns only
SetLine(line) ==
    /\ line.f # {}
    /\ line.f \subseteq {"set_open", "set_close", "br_open", "br_close"}

\* C29: with no_set_formatting set, in_set_tag is false after every line
\* and no line takes a set-open, set-close, bracket-open or bracket-close
\* branch, so a set or bracket line leaves indent_level as it was.
C29_NoSetFormatting ==
    config.no_set_formatting =>
        /\ ~in_set_tag
        /\ branch \notin SetBranches
        /\ SetLine(item) => indent_level = prev.indent_level

\* C29 witness: with no_set_formatting set, a set-open line has been read
\* and emitted; it moved neither indent_level nor in_set_tag.
C29_Witness ==
    /\ config.no_set_formatting
    /\ pc = "loop"
    /\ Has(item, "set_open")
    /\ indent_level = prev.indent_level
    /\ ~in_set_tag

----------------------------------------------------------------------------
(* Claims about formatter, checked under SpecFormatter *)

\* C3: formatter is idempotent: every pass returns a document, and the
\* second pass returns what the first returned.
C3_FormatterIdempotent ==
    f_pass > 0 =>
        /\ f_pc = "returned"
        /\ f_pass = MaxPasses => f_out = f_first

\* a document as text: every line followed by the document's line break
RECURSIVE DocumentText(_, _)
DocumentText(doc, eol) ==
    IF doc = <<>> THEN <<>>
    ELSE Head(doc).html \o (IF eol = "" THEN <<>> ELSE <<NlTok>>)
         \o DocumentText(Tail(doc), eol)

\* the number of line breaks a text ends with
RECURSIVE TrailingNewlines(_)
TrailingNewlines(text) ==
    IF text # <<>> /\ text[Len(text)].t = "nl"
    THEN 1 + TrailingNewlines(SubSeq(text, 1, Len(text) - 1))
    ELSE 0

\* C15: for every document, the empty one included, formatter returns a text
\* that ends with exactly one newline.
C15_OneTrailingNewline ==
    f_pass > 0 =>
        /\ f_pc = "returned"
        /\ TrailingNewlines(DocumentText(f_out, f_eol)) = 1

\* C16: formatter returns for a document whose first line break is \r\n a
\* text whose line breaks are all \r\n, and for any other document a text
\* with \n line breaks only.
C16_LineEndingsRestored ==
    (f_pass > 0 /\ f_eol # "") =>
        /\ f_pc = "returned"
        /\ f_out # <<>>

----------------------------------------------------------------------------
(* Claims about the style extractor, checked under SpecCss *)

OutputClasses == Range(ClassMatches(last.output))

C8_DifferentTextDifferentClass ==
    /\ \A e1, e2 \in assigned :
         e1.occ /\ e2.occ /\ e1.text # e2.text => e1.cls # e2.cls
    /\ \A i \in DOMAIN last.minted : last.minted[i].fresh

\* C9: starting from counter 0 and an empty table, one add_css_classes call,
\* or one clean_inline_style_to_css_class call on a line with exactly one
\* style attribute, leaves counter = 1 and exactly one css_rules entry that
\* maps the new class to the style text.
C9_CounterIsOneAfterOneStyle ==
    (/\ last.op \in {"add", "clean"}
     /\ last.counter0 = 0
     /\ last.rules0 = <<>>
     /\ Cardinality(last.log) = 1
     /\ last.op = "clean" => Len(StyleMatches(last.input)) = 1)
    => /\ counter = 1
       /\ Len(css_rules) = 1
       /\ \E e \in last.log : css_rules[1] = <<e.cls, e.stored>>

\* C10: after clean_inline_style_to_css_class the line holds no style="..."
\* attribute, and the class assigned to every removed style occurrence, and
\* every class the line already had, is in the line's class attribute.
C10_StylesBecomeClasses ==
    last.op = "clean" =>
        /\ StyleMatches(last.output) = <<>>
        /\ \A e \in last.log : e.cls \in OutputClasses
        /\ \A c \in Range(ClassMatches(last.input)) : c \in OutputClasses

\* the tags of a line, each from its name to its closing bracket
RECURSIVE TagSegments(_)
TagSegments(html) ==
    IF html = <<>> THEN <<>>
    ELSE IF Head(html).t # "tag" THEN TagSegments(Tail(html))
    ELSE LET gts == {j \in DOMAIN html : html[j].t = "gt"}
         IN  IF gts = {} THEN <<html>>
             ELSE LET j == CHOOSE k \in gts : \A l \in gts : k <= l
                  IN  <<SubSeq(html, 1, j)>> \o TagSegments(SubSeq(html, j + 1, Len(html)))

ClassAttrs(tag) == {i \in DOMAIN tag : IsClassAttr(tag[i])}

\* C11: the generated class is attached to the tag that carried the style:
\* a class attribute of that tag gets the merged class list, a tag without
\* one gets a class attribute right after its name, and the class attributes
\* of the other tags of the line are left unchanged.
C11_ClassOnStyledTag ==
    last.op = "clean" =>
        LET tags == TagSegments(last.input)
            out == TagSegments(last.output)
        IN  /\ Len(out) = Len(tags)
            /\ \A k \in DOMAIN tags :
                 IF StyleMatches(tags[k]) = <<>>
                 THEN ClassMatches(out[k]) = ClassMatches(tags[k])
                 ELSE /\ ClassAttrs(out[k]) # {}
                      /\ \A e \in last.log :
                           e.text \in Range(StyleMatches(tags[k]))
                               => e.cls \in Range(ClassMatches(out[k]))
                      /\ ClassAttrs(tags[k]) = {}
                             => (Len(out[k]) >= 3 /\ out[k][2] = SpTok
                                 /\ IsClassAttr(out[k][3]))

\* the place of the first block with selector sel in a file
FirstBlock(file, sel) ==
    CHOOSE i \in DOMAIN file :
        file[i].sel = sel /\ \A j \in DOMAIN file : file[j].sel = sel => i <= j

Selectors(file) == {file[i].sel : i \in DOMAIN file}

\* C12: remove_duplicate_classes leaves exactly one block per class selector,
\* the first one of the file, kept blocks in their original order; after
\* clean_inline_style_to_css_class the file has exactly one block per class.
C12_OneBlockPerSelector ==
    /\ last.op = "dedup" =>
         /\ \A i, j \in DOMAIN css_file : css_file[i].sel = css_file[j].sel => i = j
         /\ Selectors(css_file) = Selectors(last.file0)
         /\ \A i \in DOMAIN css_file :
              css_file[i] = last.file0[FirstBlock(last.file0, css_file[i].sel)]
         /\ \A i, j \in DOMAIN css_file :
              i < j => FirstBlock(last.file0, css_file[i].sel)
                         < FirstBlock(last.file0, css_file[j].sel)
    /\ last.op = "clean" =>
         /\ \A i, j \in DOMAIN css_file : css_file[i].sel = css_file[j].sel => i = j
         /\ \A i \in DOMAIN css_rules : css_rules[i][1] \in Selectors(css_file)

\* C12 witness: the file held two blocks of one selector with different
\* bodies and the call kept fewer blocks than it read.
C12_Witness ==
    /\ last.op = "dedup"
    /\ Len(css_file) < Len(last.file0)
    /\ \E i, j \in DOMAIN last.file0 :
         /\ last.file0[i].sel = last.file0[j].sel
         /\ last.file0[i].body # last.file0[j].body

\* C13: create_css_file only appends: what the file held stays an unchanged
\* prefix and one line per css_rules entry follows it, in table order.
C13_CreateAppends ==
    last.op = "create" =>
        /\ Len(css_file) = Len(last.file0) + Len(last.rules0)
        /\ SubSeq(css_file, 1, Len(last.file0)) = last.file0
        /\ \A i \in DOMAIN last.rules0 :
             css_file[Len(last.file0) + i] = Block(last.rules0[i][1], last.rules0[i][2])

\* C13 witness: create_css_file ran on a file that held blocks, with rules
\* in the table.
C13_Witness ==
    /\ last.op = "create"
    /\ last.file0 # <<>>
    /\ last.rules0 # <<>>

\* C31: the style text clean_inline_style_to_css_class stores in css_rules
\* and writes to the CSS file for a style attribute is the text between the
\* attribute's double quotes, character for character.
C31_StoredTextIsAttributeText ==
    last.op = "clean" =>
        \A e \in last.log :
            /\ e.stored = e.text
            /\ <<e.cls, e.text>> \in Range(css_rules)
            /\ Block(e.cls, e.text) \in Range(css_file)

----------------------------------------------------------------------------
(* Claims about runs that share a CSS file, checked under SpecRuns *)

\* the style text the deduplicated file gives for a class
FileStyle(file, cls) == file[FirstBlock(file, cls)].body

\* C32: after any sequence of runs on one CSS file, each starting with an
\* empty css_rules and counter 0, the deduplicated file maps every class a
\* run wrote into a document to the style text the class was stored for.
C32_FileKeepsEveryClass ==
    last.op \in {"clean", "session"} =>
        \A e \in assigned :
            e.occ => /\ e.cls \in Selectors(css_file)
                     /\ FileStyle(css_file, e.cls) = e.stored

----------------------------------------------------------------------------
(* Claims about concurrent workers, checked under SpecWorkers *)

\* C14: the append and the read-then-rewrite of each worker are serialized
\* with respect to the other's: when both workers have finished, every rule
\* either of them appended is in the file.
C14_NoLostUpdate ==
    (\A w \in Workers : w_pc[w] = "done") =>
        \A w \in Workers : \A i \in DOMAIN w_rules[w] :
            \E k \in DOMAIN w_file : w_file[k] = Block(w_rules[w][i][1], w_rules[w][i][2])

----------------------------------------------------------------------------
(* Claims about H025, checked under SpecRule *)

\* the tags of one name, taken alone, are balanced: no close tag without an
\* open tag of that name before it that is not yet closed, no open tag left
Depth(html, name, n) ==
    Cardinality({i \in 1..n : html[i].name = name /\ ~html[i].close})
    - Cardinality({i \in 1..n : html[i].name = name /\ html[i].close})

PerNameWellFormed(html) ==
    \A name \in TagNames :
        /\ \A n \in DOMAIN html : Depth(html, name, n) >= 0
        /\ Depth(html, name, Len(html)) = 0

\* the scan of H025.py:31-52, taken alone, has no finding for a document
\* whose tags are balanced name by name
ScanIsLenient == PerNameWellFormed(h_html) => run(h_html) = <<>>

\* C20: H025 returns no finding for a document in which the tags of every
\* name, taken alone, are balanced, however the names interleave.
C20_NoFalseOrphan ==
    (h_pc \notin {"idle", "load"} /\ PerNameWellFormed(h_html)) =>
        /\ h_pc = "returned"
        /\ h_errors = <<>>

\* the open tag at place i has a close tag of its name after it, with the
\* tags of that name between the two balanced
MatchedOpen(html, i) ==
    \E j \in (i + 1)..Len(html) :
        /\ html[j].name = html[i].name
        /\ html[j].close
        /\ Depth(html, html[i].name, j - 1) = Depth(html, html[i].name, i)
        /\ \A n \in i..(j - 1) :
               Depth(html, html[i].name, n) >= Depth(html, html[i].name, i)

\* the close tag at place j has an open tag of its name before it that no
\* earlier close tag has taken
MatchedClose(html, j) == \E i \in 1..(j - 1) :
    /\ html[i].name = html[j].name
    /\ ~html[i].close
    /\ Depth(html, html[i].name, j) = Depth(html, html[i].name, i) - 1
    /\ \A n \in i..(j - 1) :
           Depth(html, html[i].name, n) >= Depth(html, html[i].name, i)

\* the places of the orphan close tags and of the unclosed open tags
Unmatched(html) ==
    {i \in DOMAIN html :
        /\ html[i].name \notin AlwaysSelfClosing
        /\ IF html[i].close THEN ~MatchedClose(html, i) ELSE ~MatchedOpen(html, i)}

\* the scan of H025.py:31-52, taken alone, reports every unmatched tag once
ScanIsExact ==
    /\ Range(run(h_html)) = Unmatched(h_html)
    /\ Len(run(h_html)) = Cardinality(Unmatched(h_html))

\* C21: for a document without ignored regions the findings H025 returns
\* are the orphan close tags and the unclosed open tags, each exactly once.
C21_ExactFindings ==
    (h_pc \notin {"idle", "load"}) =>
        /\ h_pc = "returned"
        /\ Range(h_errors) = Unmatched(h_html)
        /\ Len(h_errors) = Cardinality(Unmatched(h_html))

\* open_tags when the tags up to place i have been read (H025.py:38-52), the
\* most recently opened first
RECURSIVE OpenTagsAt(_, _)
OpenTagsAt(html, i) ==
    IF i = 0 THEN <<>>
    ELSE LET before == OpenTagsAt(html, i - 1)
         IN  IF html[i].name \in AlwaysSelfClosing THEN before
             ELSE IF ~html[i].close THEN <<i>> \o before
             ELSE PopFirst(html, before, html[i].name)

\* the entries of open_tags that the close tag at place i can take
EntriesFor(html, i) ==
    {p \in Range(OpenTagsAt(html, i - 1)) : html[p].name = html[i].name}

\* a close tag is read while open_tags holds several entries of its name
SeveralOpen(html, i) ==
    /\ html[i].close
    /\ html[i].name \notin AlwaysSelfClosing
    /\ Cardinality(EntriesFor(html, i)) >= 2

\* the scan of H025.py:42-52, taken alone, removes exactly the most recently
\* opened entry of the name and keeps the order of the others
ScanPopsMostRecent ==
    \A i \in DOMAIN h_html :
        SeveralOpen(h_html, i) =>
            LET taken == CHOOSE p \in EntriesFor(h_html, i) :
                             \A q \in EntriesFor(h_html, i) : q <= p
            IN  OpenTagsAt(h_html, i)
                  = SelectSeq(OpenTagsAt(h_html, i - 1), LAMBDA p : p # taken)

\* C38: a close tag read while the open list holds several entries of its
\* name removes exactly the most recently opened one, so that for
\* <div> <div> </div> the finding H025 returns is the first <div>.
C38_ClosesMostRecent ==
    (h_pc \notin {"idle", "load"} /\ \E i \in DOMAIN h_html : SeveralOpen(h_html, i)) =>
        /\ h_pc = "returned"
        /\ h_html = <<Tag("a", FALSE), Tag("a", FALSE), Tag("a", TRUE)>> =>
              h_errors = <<1>>

\* the tags of a document outside its raw blocks and ignore regions
Outside(html, ignored) ==
    LET places == SelectSeq([i \in DOMAIN html |-> i], LAMBDA i : i \notin ignored)
    IN  [k \in DOMAIN places |-> html[places[k]]]

\* the scan and the filter of H025.py:31-58, taken alone, have no finding
\* for a document whose tags outside the ignored regions are balanced
IgnoredTagsApart ==
    PerNameWellFormed(Outside(h_html, h_ignored)) => Findings(h_html, h_ignored) = <<>>

\* C39: H025 returns no finding for a document whose tags outside raw blocks
\* and ignore regions are balanced, whatever tags those regions contain.
C39_IgnoredRegionsApart ==
    (h_pc \notin {"idle", "load"} /\ PerNameWellFormed(Outside(h_html, h_ignored))) =>
        /\ h_pc = "returned"
        /\ h_errors = <<>>

----------------------------------------------------------------------------
(* Claims about add_indentation, checked under SpecIndentation *)

\* the nested indent counter when line k is read (attributes.py:32, 40, 58)
RECURSIVE CounterAt(_, _)
CounterAt(k, lines) ==
    IF k <= 1 THEN 0 ELSE IndentAfter(CounterAt(k - 1, lines), lines[k - 1])

\* the column line k of the value is emitted at; the first line stays where
\* the caller puts it, at spacing
EmittedColumn(k, out, spacing) ==
    IF k = 1 THEN spacing
    ELSE LET parts == SplitOn(out, "\n")
         IN  Len(parts[k]) - Len(LStripWs(parts[k]))

\* C35: the nested indent counter of add_indentation is never negative: a
\* template-unindent line with no template-indent line before it is emitted
\* at the base column, and the body of a template-indent tag that follows it
\* is emitted one indent unit deeper than that tag.
C35_CounterNeverNegative ==
    ai_pc = "returned" =>
        \A k \in DOMAIN ai_attributes :
            /\ CounterAt(k + 1, ai_attributes) >= 0
            /\ (/\ ai_attributes[k].kind = "template_unindent"
                /\ \A j \in 1..(k - 1) : ai_attributes[j].kind # "template_indent")
               => EmittedColumn(k, ai_indented, ai_spacing) = ai_spacing
            /\ (/\ k > 1
                /\ ai_attributes[k - 1].kind = "template_indent"
                /\ ai_attributes[k].kind = "text")
               => EmittedColumn(k, ai_indented, ai_spacing)
                    = EmittedColumn(k - 1, ai_indented, ai_spacing) + ai_config.indent

----------------------------------------------------------------------------
(* Claims about format_data, checked under SpecData *)

\* C36: format_data emits the indented serialization of a parsed value only
\* if tag_size plus the length of the compact serialization exceeds
\* max_line_length; a compact form of at most max_line_length stays on one
\* line.
C36_IndentedOnlyIfTooLong ==
    (fd_pc = "returned" /\ fd_contents.data # NoData) =>
        LET compact == Dumps(fd_contents.data)
        IN  /\ Contains(fd_out, "\n") =>
                  fd_tag_size + Len(compact) > fd_config.max_line_length
            /\ fd_tag_size + Len(compact) <= fd_config.max_line_length =>
                  fd_out = compact

\* C37: format_data never raises: when both the parser and the fallback
\* evaluation fail, the result is the value text without its surrounding
\* whitespace and otherwise unchanged.
C37_NeverRaises ==
    /\ fd_pc # "raised"
    /\ (fd_pc = "returned" /\ fd_contents.data = NoData /\ fd_contents.eval # "value")
          => fd_out = StripWs(fd_contents.text)

====
